---- MODULE Spec2Model ----
(***************************************************************************)
(* Weather data layer of weather-app-SPA: the localStorage weather cache   *)
(* (loadWeatherCache, saveWeatherCache, getCachedWeather,                  *)
(* setCachedWeather), the cache keys, and the request pipeline             *)
(* fetchWeatherForQuery / fetchWeatherForCoords with the air-quality       *)
(* merge.                                                                  *)
(*                                                                         *)
(* Strings are sequences of one-character strings, so that trim,           *)
(* toLowerCase and string comparison are computed.  Time is epoch          *)
(* milliseconds counted from 0.                                            *)
(***************************************************************************)
EXTENDS Integers, Sequences, FiniteSets, TLC

\* ------------------------------------------------------------------------
\* Program constants
\* ------------------------------------------------------------------------
WEATHER_CACHE_TTL_MS == 15 * 60 * 1000

WEATHER_CACHE_MAX_ENTRIES == 5

\* ------------------------------------------------------------------------
\* Bounds of the model
\* ------------------------------------------------------------------------
\* number of distinct cache keys used by the cache-level specification
NumKeys == 6

\* clock step and horizon of the cache-level specification
CacheTickMs == 900000

CacheMaxTicks == 1

\* a snapshot is stored when it is built or SnapshotLagMs later; in the
\* cache-level specification the first NumLagKeys keys are the ones stored
\* with such a lagging snapshot
SnapshotLagMs == 1000

NumLagKeys == 2

\* clock step and horizon of the request-level specification, and the
\* number of calls that may be in flight at once
FetchTickMs == 300000

FetchMaxTicks == 4

NumReqs == 1

\* calls in flight at once and clock horizon of the race specification
NumRaceReqs == 2

RaceMaxTicks == 1

\* longest time array of a payload in the merge specification
MergeMaxLen == 2

\* longest query text and longest result list of the location specification
ParseMaxLen == 6

GeoMaxResults == 3

\* largest US AQI (in tenths) and largest value handed to a formatter in
\* the classification specification
AqiMaxTenths == 3100

FormatMaxValue == 40

\* distinct queries and clock horizon of the repeated-search specification
NumQueries == 3

RepeatMaxTicks == 3

\* ------------------------------------------------------------------------
\* Values
\* ------------------------------------------------------------------------
\* JavaScript null / a cache miss
Null == [null |-> TRUE]

\* localStorage.getItem returned null: nothing stored under the key yet
NoItem == [item |-> FALSE]

\* Storage backends that are unavailable or fail, as values of localStorage:
\* no window object (typeof window === "undefined"); a window whose
\* localStorage property is null; a window whose localStorage getter throws
\* (the HTML standard has it throw a SecurityError when the user agent is
\* configured not to let the page persist data); a storage whose getItem
\* throws; a storage whose setItem throws (quota exceeded) while it holds
\* nothing; an item that is not JSON; an item that is JSON but not an array.
NoWindow == [window |-> FALSE]

NoLocalStorage == [window |-> TRUE, storage |-> FALSE]

AccessDenied == [window |-> TRUE, getter |-> "throws"]

GetItemThrows == [getItem |-> "throws"]

SetItemThrows == [item |-> FALSE, setItem |-> "throws"]

NotJson == [item |-> TRUE, json |-> "invalid"]

NotAnArray == [item |-> TRUE, json |-> "object"]

\* an exception raised by a cache function
Thrown == [thrown |-> TRUE]

\* JavaScript undefined (a property the payload does not have) and NaN
Undefined == [undefined |-> TRUE]

NaN == [nan |-> TRUE]

\* JSON values of a payload: a number, a string, an array.  Every value that
\* the code tests for null or undefined is carried as one of these records.
Num(n) == [num |-> n]

Str(text) == [str |-> text]

Arr(seq) == [arr |-> seq]

Letters ==
    <<"a", "b", "c", "d", "e", "f", "g", "h", "i", "j", "k", "l",
      "m", "n", "o", "p", "q", "r", "s", "t", "u", "v", "w", "x",
      "y", "z">>

UpperCase ==
    <<"A", "B", "C", "D", "E", "F", "G", "H", "I", "J", "K", "L",
      "M", "N", "O", "P", "Q", "R", "S", "T", "U", "V", "W", "X",
      "Y", "Z">>

Max(a, b) == IF a >= b THEN a ELSE b

\* ------------------------------------------------------------------------
\* Strings
\* ------------------------------------------------------------------------
\* String.prototype.toLowerCase on the modelled alphabet
LowerChar(c) ==
    IF \E i \in 1..Len(UpperCase) : UpperCase[i] = c
    THEN Letters[CHOOSE i \in 1..Len(UpperCase) : UpperCase[i] = c]
    ELSE c

toLowerCase(s) == [i \in 1..Len(s) |-> LowerChar(s[i])]

\* String.prototype.trim: strips the white space at both ends
RECURSIVE TrimStart(_)
TrimStart(s) ==
    IF s # <<>> /\ Head(s) = " " THEN TrimStart(Tail(s)) ELSE s

RECURSIVE TrimEnd(_)
TrimEnd(s) ==
    IF s # <<>> /\ s[Len(s)] = " " THEN TrimEnd(SubSeq(s, 1, Len(s) - 1)) ELSE s

trim(s) == TrimEnd(TrimStart(s))

\* width of the modelled timestamp text
IsoWidth == 7

RECURSIVE Pow10(_)
Pow10(n) == IF n = 0 THEN 1 ELSE 10 * Pow10(n - 1)

\* Date.prototype.toISOString: a fixed-width text, most significant field
\* first; modelled as the zero-padded decimal digits of the epoch value.
toISOString(t) == [i \in 1..IsoWidth |-> (t \div Pow10(IsoWidth - i)) % 10]

\* a < b on strings (lexicographic, code unit by code unit)
RECURSIVE StrLess(_, _)
StrLess(a, b) ==
    IF b = <<>> THEN FALSE
    ELSE IF a = <<>> THEN TRUE
    ELSE IF Head(a) # Head(b) THEN Head(a) < Head(b)
    ELSE StrLess(Tail(a), Tail(b))

\* ------------------------------------------------------------------------
\* Cache keys
\* ------------------------------------------------------------------------
makeQueryCacheKey(query) == <<"query:">> \o toLowerCase(trim(query))

\* Coordinates are decimal degrees carried in units of 0.00001 degree.
\* Number.prototype.toFixed(d) for d in {2, 4}: the sign, then the magnitude
\* rounded to d decimals (of two equally near values the larger); the text is
\* carried as <<sign, magnitude in units of 10^-d>>, so that "-0.0000" and
\* "0.0000" differ as they do in JavaScript.
Abs(v) == IF v < 0 THEN -v ELSE v

toFixed(v, d) ==
    LET unit == Pow10(5 - d)
    IN  <<IF v < 0 THEN "-" ELSE "", (Abs(v) + unit \div 2) \div unit>>

\* mutant: the coordinates are not rounded
makeCoordsCacheKey_Unrounded(lat, lon) ==
    <<"coords:", <<IF lat < 0 THEN "-" ELSE "", Abs(lat)>>, ",",
      <<IF lon < 0 THEN "-" ELSE "", Abs(lon)>>>>

makeCoordsCacheKey(lat, lon) == <<"coords:", toFixed(lat, 4), ",", toFixed(lon, 4)>>

\* keys of the cache-level specification
CacheKeys == {makeQueryCacheKey(<<Letters[i]>>) : i \in 1..NumKeys}

\* ------------------------------------------------------------------------
\* State
\* ------------------------------------------------------------------------
VARIABLES
    now,            \* the wall clock, Date.now()
    localStorage,   \* the item stored under WEATHER_CACHE_STORAGE_KEY
    op,             \* the last cache operation called directly
    ret,            \* what the last getCachedWeather call returned
    reqs,           \* the calls of fetchWeatherForQuery / fetchWeatherForCoords in flight
    last,           \* the call that completed last and how it ended
    fx              \* payloads and result of one forecast build and merge

vars == <<now, localStorage, op, ret, reqs, last, fx>>

\* ------------------------------------------------------------------------
\* JSON and storage
\* ------------------------------------------------------------------------
\* JSON.stringify / JSON.parse of the entry list.  Every value held in a
\* modelled entry is a string, a finite number, null, an array or a plain
\* object, which the round trip preserves.
JSONstringify(entries) == [item |-> TRUE, text |-> entries]

JSONparse(raw) == raw.text

\* entries.filter(pred) for the predicates used by the cache
FilterUnexpired(entries, t) == SelectSeq(entries, LAMBDA e : e.expiresAt > t)

\* mutant: the entries under other keys are dropped
FilterOtherKeys_OwnOnly(entries, key) == <<>>

\* mutant: the entry under the key is not removed
FilterOtherKeys_KeepAll(entries, key) == entries

FilterOtherKeys(entries, key) == SelectSeq(entries, LAMBDA e : e.key # key)

\* the guard that opens loadWeatherCache and saveWeatherCache,
\* typeof window === "undefined" || !window.localStorage, stands outside
\* their try blocks: a throwing localStorage getter raises out of them
StorageThrows(raw) == raw = AccessDenied

\* the stored item parses and Array.isArray(parsed) holds
IsEntryList(raw) == "text" \in DOMAIN raw

\* t is the value of Date.now() read inside the function.  Defined where
\* StorageThrows(raw) is false.
loadWeatherCache(raw, t) ==
    IF raw = NoWindow \/ raw = NoLocalStorage THEN <<>>
    ELSE IF raw = GetItemThrows \/ raw = NotJson THEN <<>>
    ELSE IF raw = NoItem \/ raw = SetItemThrows THEN <<>>
    ELSE IF ~IsEntryList(raw) THEN <<>>
    ELSE FilterUnexpired(JSONparse(raw), t)

\* saveWeatherCache(entries) on the backend raw: what the storage holds
\* afterwards.  A storage whose getItem throws stays unreadable whatever is
\* written to it.  Defined where StorageThrows(raw) is false.
saveWeatherCache(raw, entries) ==
    IF raw = NoWindow \/ raw = NoLocalStorage THEN raw
    ELSE IF raw = GetItemThrows THEN raw
    ELSE IF "setItem" \in DOMAIN raw THEN raw
    ELSE JSONstringify(entries)

\* the entries persisted at present, expired ones included
Persisted == IF IsEntryList(localStorage) THEN JSONparse(localStorage) ELSE <<>>

\* entries.find((e) => e.key === key): index of the first match, 0 if none
FindIndex(entries, key) ==
    IF \E i \in 1..Len(entries) : entries[i].key = key
    THEN CHOOSE i \in 1..Len(entries) :
            /\ entries[i].key = key
            /\ \A j \in 1..(i - 1) : entries[j].key # key
    ELSE 0

\* mutant: the lookup reads the persisted list without any expiry test
getCachedWeather_IgnoreExpiry(raw, key, t1, t2) ==
    LET entries == IF IsEntryList(raw) THEN JSONparse(raw) ELSE <<>>
        i == FindIndex(entries, key)
    IN  IF i = 0 THEN [ret |-> Null, storage |-> raw]
        ELSE [ret |-> entries[i].weather, storage |-> raw]

\* getCachedWeather(key): t1 is the clock read by loadWeatherCache, t2 the
\* clock read by the expiry test that follows it (t2 >= t1).
getCachedWeather(raw, key, t1, t2) ==
    IF StorageThrows(raw) THEN [ret |-> Thrown, storage |-> raw]
    ELSE
    LET entries == loadWeatherCache(raw, t1)
        i == FindIndex(entries, key)
    IN  IF i = 0 THEN [ret |-> Null, storage |-> raw]
        ELSE IF entries[i].expiresAt <= t2
             THEN [ret |-> Null,
                   storage |-> saveWeatherCache(raw, FilterOtherKeys(entries, key))]
             ELSE [ret |-> entries[i].weather, storage |-> raw]

\* entries.sort((a, b) => (a.fetchedAt < b.fetchedAt ? -1 : 1)).
\* The comparator never answers 0, so it is not a consistent comparison
\* function and the order of entries with equal fetchedAt is left to the
\* engine.  An engine whose insertion step asks "is the new element smaller
\* than this one" keeps equal entries in their order (SortKeepTies); one that
\* asks "is this one greater than the new element" moves the later entry in
\* front of its equals (SortSwapTies).  Both orders are ascending by
\* fetchedAt.
RECURSIVE InsertAfterEquals(_, _)
InsertAfterEquals(sorted, e) ==
    IF sorted = <<>> THEN <<e>>
    ELSE IF StrLess(e.fetchedAt, sorted[Len(sorted)].fetchedAt)
         THEN Append(InsertAfterEquals(SubSeq(sorted, 1, Len(sorted) - 1), e),
                     sorted[Len(sorted)])
         ELSE Append(sorted, e)

RECURSIVE InsertBeforeEquals(_, _)
InsertBeforeEquals(sorted, e) ==
    IF sorted = <<>> THEN <<e>>
    ELSE IF StrLess(sorted[Len(sorted)].fetchedAt, e.fetchedAt)
         THEN Append(sorted, e)
         ELSE Append(InsertBeforeEquals(SubSeq(sorted, 1, Len(sorted) - 1), e),
                     sorted[Len(sorted)])

RECURSIVE SortKeepTies(_)
SortKeepTies(entries) ==
    IF entries = <<>> THEN <<>>
    ELSE InsertAfterEquals(SortKeepTies(SubSeq(entries, 1, Len(entries) - 1)),
                           entries[Len(entries)])

RECURSIVE SortSwapTies(_)
SortSwapTies(entries) ==
    IF entries = <<>> THEN <<>>
    ELSE InsertBeforeEquals(SortSwapTies(SubSeq(entries, 1, Len(entries) - 1)),
                            entries[Len(entries)])

SortOutcomes(entries) == {SortKeepTies(entries), SortSwapTies(entries)}

\* mutant: the slice starts one entry too early
SliceLast_OffByOne(entries) ==
    SubSeq(entries, Max(1, Len(entries) - WEATHER_CACHE_MAX_ENTRIES), Len(entries))

\* mutant: the slice keeps the head of the sorted list instead of its tail
SliceLast_Head(entries) ==
    SubSeq(entries, 1, WEATHER_CACHE_MAX_ENTRIES)

\* entries.slice(entries.length - WEATHER_CACHE_MAX_ENTRIES)
SliceLast(entries) ==
    SubSeq(entries, Max(1, Len(entries) - WEATHER_CACHE_MAX_ENTRIES + 1), Len(entries))

\* the trim step of setCachedWeather: the lists it may end up with
TrimOutcomes(entries) ==
    IF Len(entries) > WEATHER_CACHE_MAX_ENTRIES
    THEN {SliceLast(sorted) : sorted \in SortOutcomes(entries)}
    ELSE {entries}

\* mutant: an unexpired entry under the key is kept and the snapshot is not
\* stored
setCachedWeather_FirstWins(raw, key, weather, t1, t2) ==
    LET loaded == loadWeatherCache(raw, t2)
        entry == [key |-> key,
                  fetchedAt |-> weather.fetchedAt,
                  expiresAt |-> t1 + WEATHER_CACHE_TTL_MS,
                  weather |-> weather]
    IN  IF FindIndex(loaded, key) # 0
        THEN {saveWeatherCache(raw, loaded)}
        ELSE {saveWeatherCache(raw, trimmed) : trimmed \in TrimOutcomes(Append(loaded, entry))}

\* mutant: the time-to-live is not added to the expiry time
setCachedWeather_NoTtl(raw, key, weather, t1, t2) ==
    LET kept == FilterOtherKeys(loadWeatherCache(raw, t2), key)
        entry == [key |-> key,
                  fetchedAt |-> weather.fetchedAt,
                  expiresAt |-> t1,
                  weather |-> weather]
    IN  {saveWeatherCache(raw, trimmed) : trimmed \in TrimOutcomes(Append(kept, entry))}

\* setCachedWeather(key, weather): t1 is the clock read for expiresAt, t2
\* the clock read by loadWeatherCache.  The set of lists it may persist.
setCachedWeather(raw, key, weather, t1, t2) ==
    LET expiresAt == t1 + WEATHER_CACHE_TTL_MS
        kept == FilterOtherKeys(loadWeatherCache(raw, t2), key)
        entry == [key |-> key,
                  fetchedAt |-> IF weather.fetchedAt # <<>>
                                THEN weather.fetchedAt
                                ELSE toISOString(t2),
                  expiresAt |-> expiresAt,
                  weather |-> weather]
    IN  {saveWeatherCache(raw, trimmed) : trimmed \in TrimOutcomes(Append(kept, entry))}

\* ------------------------------------------------------------------------
\* Cache-level specification: the cache functions called in any order with
\* any key and any snapshot, and the clock advancing.
\* ------------------------------------------------------------------------
\* a WeatherState built at time f (the forecast content is irrelevant to
\* the cache)
CacheSnapshot(f) ==
    [coords |-> [lat |-> 0, lon |-> 0],
     locationLabel |-> Str(<<"x">>),
     timezone |-> Str(<<"UTC">>),
     fetchedAt |-> toISOString(f),
     current |-> Null,
     hourly |-> <<>>,
     daily |-> <<>>]

LagKeys == {makeQueryCacheKey(<<Letters[i]>>) : i \in 1..NumLagKeys}

\* the snapshots setCachedWeather is called with for a key at time t
CacheSnapshots(key, t) ==
    {CacheSnapshot(f) :
        f \in {t} \cup (IF key \in LagKeys /\ t >= SnapshotLagMs
                         THEN {t - SnapshotLagMs} ELSE {})}

\* op records the last cache call: its name, key, snapshot and the clock it
\* read first; found: what the persisted list held under the key when the
\* call started ("absent", "expired" or "valid"); and for a set, kept: the
\* number of unexpired entries under other keys it loaded, older: whether one
\* of these has a fetchedAt before the snapshot's.
NoOp ==
    [name |-> "none", key |-> <<>>, weather |-> Null, time |-> 0,
     found |-> "none", kept |-> 0, older |-> FALSE]

\* the persisted entry under key, or Null
PersistedEntry(raw, key) ==
    LET entries == IF IsEntryList(raw) THEN JSONparse(raw) ELSE <<>>
        i == FindIndex(entries, key)
    IN  IF i = 0 THEN Null ELSE entries[i]

Found(raw, key, t) ==
    LET e == PersistedEntry(raw, key)
    IN  IF e = Null THEN "absent"
        ELSE IF e.expiresAt <= t THEN "expired" ELSE "valid"

\* the later clock values a second Date.now() of the same call may read
LaterReads(t, tick, maxTicks) == {t2 \in {t, t + tick} : t2 <= tick * maxTicks}

\* the entries under other keys that setCachedWeather loads and keeps
KeptBySet(raw, key, t) == FilterOtherKeys(loadWeatherCache(raw, t), key)

InitCache ==
    /\ now = 0
    /\ localStorage = NoItem
    /\ op = NoOp
    /\ ret = Null
    /\ reqs = <<>>
    /\ last = Null
    /\ fx = Null

CacheSet(key, weather) ==
    \E t2 \in LaterReads(now, CacheTickMs, CacheMaxTicks) :
    \E saved \in IF StorageThrows(localStorage) THEN {localStorage}
                 ELSE setCachedWeather(localStorage, key, weather, now, t2) :
        /\ localStorage' = saved
        /\ now' = t2
        /\ op' = [name |-> "set", key |-> key, weather |-> weather, time |-> now,
                  found |-> Found(localStorage, key, t2),
                  kept |-> Len(KeptBySet(localStorage, key, t2)),
                  older |-> \E i \in 1..Len(KeptBySet(localStorage, key, t2)) :
                              StrLess(KeptBySet(localStorage, key, t2)[i].fetchedAt,
                                      weather.fetchedAt)]
        /\ ret' = IF StorageThrows(localStorage) THEN Thrown ELSE Null
        /\ UNCHANGED <<reqs, last, fx>>

CacheGet(key) ==
    \E t2 \in LaterReads(now, CacheTickMs, CacheMaxTicks) :
        LET r == getCachedWeather(localStorage, key, now, t2)
        IN  /\ localStorage' = r.storage
            /\ now' = t2
            /\ op' = [name |-> "get", key |-> key, weather |-> Null, time |-> now,
                      found |-> Found(localStorage, key, now),
                      kept |-> 0, older |-> FALSE]
            /\ ret' = r.ret
            /\ UNCHANGED <<reqs, last, fx>>

CacheTick ==
    /\ now + CacheTickMs <= CacheTickMs * CacheMaxTicks
    /\ now' = now + CacheTickMs
    /\ op' = NoOp
    /\ ret' = Null
    /\ UNCHANGED <<localStorage, reqs, last, fx>>

NextCache ==
    \/ \E key \in CacheKeys : \E weather \in CacheSnapshots(key, now) : CacheSet(key, weather)
    \/ \E key \in CacheKeys : CacheGet(key)
    \/ CacheTick

SpecCache == InitCache /\ [][NextCache]_vars

\* ------------------------------------------------------------------------
\* Upstream payloads, forecast parsing and the air-quality merge
\* ------------------------------------------------------------------------
IsArray(x) == "arr" \in DOMAIN x

\* x ?? y
Coalesce(x, y) == IF x = Null \/ x = Undefined THEN y ELSE x

\* mutant: an index past the end of the array gives 0 instead of null
safeArrVal_ZeroPastEnd(arr, i) ==
    IF IsArray(arr)
    THEN IF i <= Len(arr.arr) THEN Coalesce(arr.arr[i], Null) ELSE Num(0)
    ELSE Null

\* safeArrVal(arr, i): Array.isArray(arr) ? arr[i] ?? null : null
\* (i counts from 1 here)
safeArrVal(arr, i) ==
    IF IsArray(arr)
    THEN IF i <= Len(arr.arr) THEN Coalesce(arr.arr[i], Null) ELSE Null
    ELSE Null

\* data.hourly || {} and data.daily || {}: a missing block reads as an object
\* without any of the arrays
NoHourly ==
    [time |-> Undefined, temperature_2m |-> Undefined,
     apparent_temperature |-> Undefined, precipitation |-> Undefined,
     relative_humidity_2m |-> Undefined, wind_speed_10m |-> Undefined,
     wind_direction_10m |-> Undefined, wind_gusts_10m |-> Undefined,
     cloudcover |-> Undefined, visibility |-> Undefined,
     uv_index |-> Undefined, weathercode |-> Undefined]

NoDaily ==
    [time |-> Undefined, temperature_2m_max |-> Undefined,
     temperature_2m_min |-> Undefined, weathercode |-> Undefined,
     sunrise |-> Undefined, sunset |-> Undefined, uv_index_max |-> Undefined]

OrEmpty(block, empty) == IF block = Undefined \/ block = Null THEN empty ELSE block

\* the hourly points of fetchWeatherForCoords
buildHourly(data) ==
    LET hourlyData == OrEmpty(data.hourly, NoHourly)
        hourlyTimes == IF IsArray(hourlyData.time) THEN hourlyData.time.arr ELSE <<>>
    IN  [i \in 1..Len(hourlyTimes) |->
            [time |-> hourlyTimes[i],
             temperature |-> safeArrVal(hourlyData.temperature_2m, i),
             apparentTemperature |-> safeArrVal(hourlyData.apparent_temperature, i),
             precipitation |-> safeArrVal(hourlyData.precipitation, i),
             humidity |-> safeArrVal(hourlyData.relative_humidity_2m, i),
             windSpeed |-> safeArrVal(hourlyData.wind_speed_10m, i),
             windDirection |-> safeArrVal(hourlyData.wind_direction_10m, i),
             windGusts |-> safeArrVal(hourlyData.wind_gusts_10m, i),
             cloudCover |-> safeArrVal(hourlyData.cloudcover, i),
             visibility |-> safeArrVal(hourlyData.visibility, i),
             uvIndex |-> safeArrVal(hourlyData.uv_index, i),
             weatherCode |-> safeArrVal(hourlyData.weathercode, i),
             airQuality |-> Null,
             airQualitySummary |-> Null]]

\* mutant: the daily points are built newest first
buildDaily_NewestFirst(data) ==
    LET dailyData == OrEmpty(data.daily, NoDaily)
        dailyTimes == IF IsArray(dailyData.time) THEN dailyData.time.arr ELSE <<>>
        n == Len(dailyTimes)
    IN  [i \in 1..n |->
            [date |-> dailyTimes[n + 1 - i],
             tempMax |-> safeArrVal(dailyData.temperature_2m_max, n + 1 - i),
             tempMin |-> safeArrVal(dailyData.temperature_2m_min, n + 1 - i),
             weatherCode |-> safeArrVal(dailyData.weathercode, n + 1 - i),
             sunrise |-> safeArrVal(dailyData.sunrise, n + 1 - i),
             sunset |-> safeArrVal(dailyData.sunset, n + 1 - i),
             uvIndexMax |-> safeArrVal(dailyData.uv_index_max, n + 1 - i)]]

\* the daily points of fetchWeatherForCoords
buildDaily(data) ==
    LET dailyData == OrEmpty(data.daily, NoDaily)
        dailyTimes == IF IsArray(dailyData.time) THEN dailyData.time.arr ELSE <<>>
    IN  [i \in 1..Len(dailyTimes) |->
            [date |-> dailyTimes[i],
             tempMax |-> safeArrVal(dailyData.temperature_2m_max, i),
             tempMin |-> safeArrVal(dailyData.temperature_2m_min, i),
             weatherCode |-> safeArrVal(dailyData.weathercode, i),
             sunrise |-> safeArrVal(dailyData.sunrise, i),
             sunset |-> safeArrVal(dailyData.sunset, i),
             uvIndexMax |-> safeArrVal(dailyData.uv_index_max, i)]]

\* the WeatherState fetchWeatherForCoords builds from the forecast payload at
\* clock value t, before the air-quality merge
buildWeather(lat, lon, labelOverride, data, t) ==
    [coords |-> [lat |-> lat, lon |-> lon],
     locationLabel |-> Coalesce(labelOverride,
                                Str(<<toFixed(lat, 2), ", ", toFixed(lon, 2)>>)),
     timezone |-> data.timezone,
     fetchedAt |-> toISOString(t),
     current |-> IF data.current_weather = Undefined \/ data.current_weather = Null
                 THEN Null
                 ELSE [time |-> data.current_weather.time,
                       temperature |-> data.current_weather.temperature,
                       weatherCode |-> data.current_weather.weathercode],
     hourly |-> buildHourly(data),
     daily |-> buildDaily(data)]

\* mutant: the value is truncated, Math.floor
MathRound_Floor(tenths) == tenths \div 10

\* US AQI values are carried in tenths of a unit.  Math.round: the nearest
\* integer, a half rounding up.
MathRound(tenths) == (tenths + 5) \div 10

classifyUsAqi(usAqi) ==
    IF usAqi = Null \/ usAqi = Undefined \/ usAqi = NaN
    THEN [category |-> "unknown", summary |-> <<"Air quality unknown">>]
    ELSE LET aqi == MathRound(usAqi.num)
         IN  IF aqi <= 50
             THEN [category |-> "good", summary |-> <<"Good (US AQI ", aqi, ")">>]
             ELSE IF aqi <= 100
             THEN [category |-> "moderate",
                   summary |-> <<"Moderate (US AQI ", aqi, ")">>]
             ELSE IF aqi <= 150
             THEN [category |-> "unhealthy",
                   summary |-> <<"Unhealthy for sensitive groups (US AQI ", aqi, ")">>]
             ELSE IF aqi <= 200
             THEN [category |-> "unhealthy",
                   summary |-> <<"Unhealthy (US AQI ", aqi, ")">>]
             ELSE IF aqi <= 300
             THEN [category |-> "very_unhealthy",
                   summary |-> <<"Very unhealthy (US AQI ", aqi, ")">>]
             ELSE [category |-> "hazardous",
                   summary |-> <<"Hazardous (US AQI ", aqi, ")">>]

NoAqHourly ==
    [time |-> Undefined, pm10 |-> Undefined, pm2_5 |-> Undefined,
     dust |-> Undefined, uv_index |-> Undefined, us_aqi |-> Undefined]

\* the sample fetchAirQuality builds for index i
AqSample(hourly, i) ==
    LET usAqi == safeArrVal(hourly.us_aqi, i)
        class == classifyUsAqi(usAqi)
    IN  [pm10 |-> safeArrVal(hourly.pm10, i),
         pm2_5 |-> safeArrVal(hourly.pm2_5, i),
         dust |-> safeArrVal(hourly.dust, i),
         uvIndex |-> safeArrVal(hourly.uv_index, i),
         usAqi |-> usAqi,
         category |-> class.category,
         summary |-> class.summary]

\* the map fetchAirQuality returns for a payload: byTime[time] is assigned
\* index by index, so a later index overwrites an earlier one with the same
\* time
fetchAirQuality(data) ==
    LET hourly == IF data = Null \/ data = Undefined
                  THEN NoAqHourly ELSE OrEmpty(data.hourly, NoAqHourly)
        times == IF IsArray(hourly.time) THEN hourly.time.arr ELSE <<>>
        LastIndex(time) == CHOOSE i \in 1..Len(times) :
                              /\ times[i] = time
                              /\ \A j \in (i + 1)..Len(times) : times[j] # time
    IN  [time \in {times[i] : i \in 1..Len(times)} |-> AqSample(hourly, LastIndex(time))]

\* mutant: a point whose timestamp has no entry takes some other entry
mergeAirQuality_AnyEntry(hourly, aqByTime) ==
    [i \in 1..Len(hourly) |->
        IF DOMAIN aqByTime # {}
        THEN LET aq == IF hourly[i].time \in DOMAIN aqByTime
                       THEN aqByTime[hourly[i].time]
                       ELSE aqByTime[CHOOSE k \in DOMAIN aqByTime : TRUE]
             IN  [hourly[i] EXCEPT
                    !.airQuality = [pm10 |-> aq.pm10,
                                    pm2_5 |-> aq.pm2_5,
                                    dust |-> aq.dust,
                                    uvIndex |-> aq.uvIndex,
                                    usAqi |-> aq.usAqi,
                                    category |-> aq.category],
                    !.airQualitySummary = aq.summary]
        ELSE hourly[i]]

\* the merge loop of fetchWeatherForCoords: for each point, aqByTime[point.time]
mergeAirQuality(hourly, aqByTime) ==
    [i \in 1..Len(hourly) |->
        IF hourly[i].time \in DOMAIN aqByTime
        THEN LET aq == aqByTime[hourly[i].time]
             IN  [hourly[i] EXCEPT
                    !.airQuality = [pm10 |-> aq.pm10,
                                    pm2_5 |-> aq.pm2_5,
                                    dust |-> aq.dust,
                                    uvIndex |-> aq.uvIndex,
                                    usAqi |-> aq.usAqi,
                                    category |-> aq.category],
                    !.airQualitySummary = aq.summary]
        ELSE hourly[i]]


\* ------------------------------------------------------------------------
\* HTTP and geocoding
\* ------------------------------------------------------------------------
\* An upstream response is [kind, data]: kind "status" is a response whose
\* ok flag is false, "json" one whose body does not parse, "data" a parsed
\* body.  fetchJson throws for the first two.
fetchJson(response) ==
    IF response.kind = "data"
    THEN [ok |-> TRUE, data |-> response.data]
    ELSE [ok |-> FALSE, error |-> response.kind]

\* Boolean(x) for a string or a missing property
Truthy(x) == x # Undefined /\ x # Null /\ x # Str(<<>>)

\* parts.join(", ")
RECURSIVE JoinParts(_)
JoinParts(parts) ==
    IF parts = <<>> THEN <<>>
    ELSE IF Len(parts) = 1 THEN parts[1].str
    ELSE parts[1].str \o <<", ">> \o JoinParts(Tail(parts))

\* \d and [A-Za-z] on the modelled alphabet
IsDigit(c) == c \in {"0", "1", "2", "3", "4", "5", "6", "7", "8", "9"}

IsLetter(c) ==
    \E i \in 1..Len(Letters) : c = Letters[i] \/ c = UpperCase[i]

\* String.prototype.toUpperCase on the modelled alphabet
toUpperCase(s) ==
    [i \in 1..Len(s) |->
        IF \E k \in 1..Len(Letters) : Letters[k] = s[i]
        THEN UpperCase[CHOOSE k \in 1..Len(Letters) : Letters[k] = s[i]]
        ELSE s[i]]

\* mutant: the pattern is not anchored at the end, /^\d{5}/
ZIP_REGEX_Unanchored(s) ==
    /\ Len(s) >= 5
    /\ \A i \in 1..5 : IsDigit(s[i])

\* ZIP_REGEX.test(s), /^\d{5}$/
ZIP_REGEX(s) ==
    /\ Len(s) = 5
    /\ \A i \in 1..5 : IsDigit(s[i])

\* s.match(CITY_STATE_REGEX), /^([^,]+),\s*([A-Za-z]{2})$/: the two groups,
\* or Null.  The first group cannot hold a comma and must be followed by
\* one, so it ends right before the first comma of s; what follows that
\* comma is white space and then the two letters that end s.
CITY_STATE_REGEX(s) ==
    LET commas == {i \in 1..Len(s) : s[i] = ","}
        c == IF commas = {} THEN 0
             ELSE CHOOSE i \in commas : \A j \in commas : i <= j
        n == Len(s)
    IN  IF /\ c >= 2
           /\ n >= c + 2
           /\ IsLetter(s[n - 1]) /\ IsLetter(s[n])
           /\ \A k \in (c + 1)..(n - 2) : s[k] = " "
        THEN [city |-> SubSeq(s, 1, c - 1), code |-> SubSeq(s, n - 1, n)]
        ELSE Null

parseLocationQuery(query) ==
    LET trimmed == trim(query)
        match == CITY_STATE_REGEX(trimmed)
    IN  IF trimmed = <<>> THEN [kind |-> "generic", raw |-> <<>>]
        ELSE IF ZIP_REGEX(trimmed) THEN [kind |-> "zip", zip |-> trimmed]
        ELSE IF match # Null
             THEN [kind |-> "city_state", city |-> trim(match.city),
                   stateCode |-> toUpperCase(match.code)]
             ELSE [kind |-> "generic", raw |-> trimmed]

\* the table US_STATE_NAMES as its set of entries
US_STATE_NAMES ==
    {[code |-> <<"A", "L">>,
      name |-> <<"A", "l", "a", "b", "a", "m", "a">>],
     [code |-> <<"A", "K">>,
      name |-> <<"A", "l", "a", "s", "k", "a">>],
     [code |-> <<"A", "Z">>,
      name |-> <<"A", "r", "i", "z", "o", "n", "a">>],
     [code |-> <<"A", "R">>,
      name |-> <<"A", "r", "k", "a", "n", "s", "a", "s">>],
     [code |-> <<"C", "A">>,
      name |-> <<"C", "a", "l", "i", "f", "o", "r", "n", "i", "a">>],
     [code |-> <<"C", "O">>,
      name |-> <<"C", "o", "l", "o", "r", "a", "d", "o">>],
     [code |-> <<"C", "T">>,
      name |-> <<"C", "o", "n", "n", "e", "c", "t", "i", "c", "u", "t">>],
     [code |-> <<"D", "E">>,
      name |-> <<"D", "e", "l", "a", "w", "a", "r", "e">>],
     [code |-> <<"F", "L">>,
      name |-> <<"F", "l", "o", "r", "i", "d", "a">>],
     [code |-> <<"G", "A">>,
      name |-> <<"G", "e", "o", "r", "g", "i", "a">>],
     [code |-> <<"H", "I">>,
      name |-> <<"H", "a", "w", "a", "i", "i">>],
     [code |-> <<"I", "D">>,
      name |-> <<"I", "d", "a", "h", "o">>],
     [code |-> <<"I", "L">>,
      name |-> <<"I", "l", "l", "i", "n", "o", "i", "s">>],
     [code |-> <<"I", "N">>,
      name |-> <<"I", "n", "d", "i", "a", "n", "a">>],
     [code |-> <<"I", "A">>,
      name |-> <<"I", "o", "w", "a">>],
     [code |-> <<"K", "S">>,
      name |-> <<"K", "a", "n", "s", "a", "s">>],
     [code |-> <<"K", "Y">>,
      name |-> <<"K", "e", "n", "t", "u", "c", "k", "y">>],
     [code |-> <<"L", "A">>,
      name |-> <<"L", "o", "u", "i", "s", "i", "a", "n", "a">>],
     [code |-> <<"M", "E">>,
      name |-> <<"M", "a", "i", "n", "e">>],
     [code |-> <<"M", "D">>,
      name |-> <<"M", "a", "r", "y", "l", "a", "n", "d">>],
     [code |-> <<"M", "A">>,
      name |-> <<"M", "a", "s", "s", "a", "c", "h", "u", "s", "e", "t", "t",
               "s">>],
     [code |-> <<"M", "I">>,
      name |-> <<"M", "i", "c", "h", "i", "g", "a", "n">>],
     [code |-> <<"M", "N">>,
      name |-> <<"M", "i", "n", "n", "e", "s", "o", "t", "a">>],
     [code |-> <<"M", "S">>,
      name |-> <<"M", "i", "s", "s", "i", "s", "s", "i", "p", "p", "i">>],
     [code |-> <<"M", "O">>,
      name |-> <<"M", "i", "s", "s", "o", "u", "r", "i">>],
     [code |-> <<"M", "T">>,
      name |-> <<"M", "o", "n", "t", "a", "n", "a">>],
     [code |-> <<"N", "E">>,
      name |-> <<"N", "e", "b", "r", "a", "s", "k", "a">>],
     [code |-> <<"N", "V">>,
      name |-> <<"N", "e", "v", "a", "d", "a">>],
     [code |-> <<"N", "H">>,
      name |-> <<"N", "e", "w", " ", "H", "a", "m", "p", "s", "h", "i", "r",
               "e">>],
     [code |-> <<"N", "J">>,
      name |-> <<"N", "e", "w", " ", "J", "e", "r", "s", "e", "y">>],
     [code |-> <<"N", "M">>,
      name |-> <<"N", "e", "w", " ", "M", "e", "x", "i", "c", "o">>],
     [code |-> <<"N", "Y">>,
      name |-> <<"N", "e", "w", " ", "Y", "o", "r", "k">>],
     [code |-> <<"N", "C">>,
      name |-> <<"N", "o", "r", "t", "h", " ", "C", "a", "r", "o", "l", "i",
               "n", "a">>],
     [code |-> <<"N", "D">>,
      name |-> <<"N", "o", "r", "t", "h", " ", "D", "a", "k", "o", "t", "a">>],
     [code |-> <<"O", "H">>,
      name |-> <<"O", "h", "i", "o">>],
     [code |-> <<"O", "K">>,
      name |-> <<"O", "k", "l", "a", "h", "o", "m", "a">>],
     [code |-> <<"O", "R">>,
      name |-> <<"O", "r", "e", "g", "o", "n">>],
     [code |-> <<"P", "A">>,
      name |-> <<"P", "e", "n", "n", "s", "y", "l", "v", "a", "n", "i", "a">>],
     [code |-> <<"R", "I">>,
      name |-> <<"R", "h", "o", "d", "e", " ", "I", "s", "l", "a", "n", "d">>],
     [code |-> <<"S", "C">>,
      name |-> <<"S", "o", "u", "t", "h", " ", "C", "a", "r", "o", "l", "i",
               "n", "a">>],
     [code |-> <<"S", "D">>,
      name |-> <<"S", "o", "u", "t", "h", " ", "D", "a", "k", "o", "t", "a">>],
     [code |-> <<"T", "N">>,
      name |-> <<"T", "e", "n", "n", "e", "s", "s", "e", "e">>],
     [code |-> <<"T", "X">>,
      name |-> <<"T", "e", "x", "a", "s">>],
     [code |-> <<"U", "T">>,
      name |-> <<"U", "t", "a", "h">>],
     [code |-> <<"V", "T">>,
      name |-> <<"V", "e", "r", "m", "o", "n", "t">>],
     [code |-> <<"V", "A">>,
      name |-> <<"V", "i", "r", "g", "i", "n", "i", "a">>],
     [code |-> <<"W", "A">>,
      name |-> <<"W", "a", "s", "h", "i", "n", "g", "t", "o", "n">>],
     [code |-> <<"W", "V">>,
      name |-> <<"W", "e", "s", "t", " ", "V", "i", "r", "g", "i", "n", "i",
               "a">>],
     [code |-> <<"W", "I">>,
      name |-> <<"W", "i", "s", "c", "o", "n", "s", "i", "n">>],
     [code |-> <<"W", "Y">>,
      name |-> <<"W", "y", "o", "m", "i", "n", "g">>],
     [code |-> <<"D", "C">>,
      name |-> <<"D", "i", "s", "t", "r", "i", "c", "t", " ", "o", "f", " ",
               "C", "o", "l", "u", "m", "b", "i", "a">>]}

\* US_STATE_NAMES[stateCode] || null
StateName(stateCode) ==
    IF \E e \in US_STATE_NAMES : e.code = stateCode
    THEN (CHOOSE e \in US_STATE_NAMES : e.code = stateCode).name
    ELSE Null

\* typeof x === "string"
IsString(x) == "str" \in DOMAIN x

\* mutant: the first result is returned whatever the state of the query
PickResult_First(results, desiredStateName) == 1

\* the index of the result geocodeLocation returns: the first one, unless
\* a state name is wanted and results.find meets a result whose admin1 is
\* a string equal to it up to letter case
PickResult(results, desiredStateName) ==
    LET matches == {i \in 1..Len(results) :
                       /\ desiredStateName # Null
                       /\ IsString(results[i].admin1)
                       /\ toLowerCase(results[i].admin1.str)
                            = toLowerCase(desiredStateName)}
    IN  IF matches = {} THEN 1
        ELSE CHOOSE i \in matches : \A j \in matches : i <= j

\* geocodeLocation(query) given the response to its request: the result
\* picked, labelled with its non-empty name parts
geocodeLocation(query, response) ==
    LET parsed == parseLocationQuery(query)
        desiredStateName == IF parsed.kind = "city_state"
                            THEN StateName(parsed.stateCode)
                            ELSE Null
        fetched == fetchJson(response)
    IN  IF ~fetched.ok THEN fetched
        ELSE IF ~Truthy(fetched.data.results)
                  \/ Len(fetched.data.results.arr) = 0
        THEN [ok |-> FALSE, error |-> "No results found"]
        ELSE LET results == fetched.data.results.arr
                 result == results[PickResult(results, desiredStateName)]
                 labelParts == SelectSeq(<<result.name, result.admin1,
                                           result.country_code>>, Truthy)
             IN  [ok |-> TRUE,
                  lat |-> result.latitude,
                  lon |-> result.longitude,
                  label |-> Str(JoinParts(labelParts))]

\* an address object without any of the fields read
NoAddress ==
    [city |-> Undefined, town |-> Undefined, village |-> Undefined,
     hamlet |-> Undefined, suburb |-> Undefined, state |-> Undefined,
     region |-> Undefined, country_code |-> Undefined, postcode |-> Undefined]

\* a || b || ... : the first truthy element, or the last element
RECURSIVE FirstTruthy(_)
FirstTruthy(xs) ==
    IF Len(xs) = 1 \/ Truthy(Head(xs)) THEN Head(xs) ELSE FirstTruthy(Tail(xs))

\* mutant: a failed request is not caught
reverseGeocodeCoords_Uncaught(response) ==
    LET fetched == fetchJson(response)
    IN  IF ~fetched.ok THEN Thrown
        ELSE LET data == fetched.data
                 address == IF data = Null THEN NoAddress
                            ELSE OrEmpty(data.address, NoAddress)
                 parts == SelectSeq(
                    <<FirstTruthy(<<address.city, address.town, address.village,
                                    address.hamlet, address.suburb>>),
                      address.state,
                      IF IsString(address.country_code)
                      THEN Str(toUpperCase(address.country_code.str))
                      ELSE Undefined>>, Truthy)
             IN  IF parts = <<>> THEN Null ELSE Str(JoinParts(parts))

\* reverseGeocodeCoords of locationApi.js given the response to its
\* request: the label, or Null.  Everything after the request is inside the
\* try block: a failed request, and toUpperCase missing on a country_code
\* that is not a string, end in the catch.
reverseGeocodeCoords(response) ==
    LET fetched == fetchJson(response)
    IN  IF ~fetched.ok THEN Null
        ELSE LET data == fetched.data
                 address == IF data = Null THEN NoAddress
                            ELSE OrEmpty(data.address, NoAddress)
             IN  IF /\ address.country_code # Undefined
                    /\ address.country_code # Null
                    /\ ~IsString(address.country_code)
                 THEN Null
                 ELSE
                 LET parts == SelectSeq(
                        <<FirstTruthy(<<address.city, address.town, address.village,
                                        address.hamlet, address.suburb>>),
                          address.state,
                          IF IsString(address.country_code)
                          THEN Str(toUpperCase(address.country_code.str))
                          ELSE Undefined>>, Truthy)
                 IN  IF parts = <<>> THEN Null ELSE Str(JoinParts(parts))

\* reverseGeocodeCoords as weatherApi.js defines it: the region stands in
\* for the country code, and a postal code is the last resort
reverseGeocodeCoordsWeatherApi(response) ==
    LET fetched == fetchJson(response)
    IN  IF ~fetched.ok THEN Null
        ELSE IF fetched.data = Null THEN Null
        ELSE IF ~Truthy(fetched.data.address) THEN Null
        ELSE LET addr == fetched.data.address
                 cityLike == FirstTruthy(<<addr.city, addr.town, addr.village,
                                           addr.hamlet, addr.suburb>>)
                 region == FirstTruthy(<<addr.state, addr.region>>)
             IN  IF Truthy(addr.country_code) /\ ~IsString(addr.country_code)
                 THEN Null
                 ELSE
                 LET countryCode == IF Truthy(addr.country_code)
                                    THEN Str(toUpperCase(addr.country_code.str))
                                    ELSE Null
                     parts == (IF Truthy(cityLike) THEN <<cityLike>> ELSE <<>>)
                              \o (IF Truthy(region) THEN <<region>>
                                  ELSE IF Truthy(countryCode) THEN <<countryCode>>
                                  ELSE <<>>)
                 IN  IF parts = <<>> /\ Truthy(addr.postcode)
                     THEN Str(<<"Near ">> \o addr.postcode.str)
                     ELSE IF parts # <<>> THEN Str(JoinParts(parts)) ELSE Null

\* ------------------------------------------------------------------------
\* Inputs of the request-level specification
\* ------------------------------------------------------------------------
\* a place, and a second pair of coordinates within 0.00005 degree of it
PlaceA == [lat |-> 3973920, lon |-> -10499030]

PlaceANear == [lat |-> 3973922, lon |-> -10499031]

CoordInputs == {PlaceA, PlaceANear}

\* labelOverride of a direct fetchWeatherForCoords call
LabelInputs == {Undefined, Str(<<"Your location">>)}

\* texts typed into the search box
QueryInputs == {<<"a">>, <<" ", "A">>}

GeocodeResponses ==
    {[kind |-> "status", data |-> Null],
     [kind |-> "json", data |-> Null],
     [kind |-> "data", data |-> [results |-> Undefined]],
     [kind |-> "data", data |-> [results |-> Arr(<<>>)]],
     [kind |-> "data",
      data |-> [results |-> Arr(<<[name |-> Str(<<"a">>),
                                   admin1 |-> Undefined,
                                   country_code |-> Str(<<"US">>),
                                   latitude |-> PlaceA.lat,
                                   longitude |-> PlaceA.lon]>>)]]}

\* hour stamps as the providers write them
Hour0 == "2025-12-05T00:00"

Hour1 == "2025-12-05T01:00"

\* the first hour written with seconds
Hour0Seconds == "2025-12-05T00:00:00"

\* a forecast payload with the given hourly time array; temperature_2m is
\* one element shorter than needed for a third hour, the other hourly arrays
\* are absent
ForecastPayload(times, temperatures) ==
    [timezone |-> Str(<<"America/Denver">>),
     current_weather |-> [time |-> Hour0, temperature |-> Num(21),
                          weathercode |-> Num(3)],
     hourly |-> [NoHourly EXCEPT !.time = times,
                                 !.temperature_2m = temperatures,
                                 !.weathercode = Arr(<<Num(3), Null, Num(61)>>)],
     daily |-> [NoDaily EXCEPT !.time = Arr(<<"2025-12-05">>),
                               !.temperature_2m_max = Arr(<<Num(25)>>),
                               !.temperature_2m_min = Arr(<<Num(11)>>)]]

\* an air-quality payload with the given time array
AirQualityPayload(times) ==
    [hourly |-> [NoAqHourly EXCEPT !.time = times,
                                   !.pm10 = Arr(<<Num(12), Num(14), Num(16)>>),
                                   !.us_aqi = Arr(<<Num(420), Num(1505), Null>>)]]

ForecastResponses ==
    {[kind |-> "status", data |-> Null],
     [kind |-> "json", data |-> Null],
     [kind |-> "data",
      data |-> ForecastPayload(Arr(<<Hour0, Hour1>>), Arr(<<Num(20), Num(19)>>))]}

AirQualityResponses ==
    {[kind |-> "status", data |-> Null],
     [kind |-> "json", data |-> Null],
     [kind |-> "data", data |-> AirQualityPayload(Arr(<<Hour0>>))]}

\* ------------------------------------------------------------------------
\* Request-level specification: calls of fetchWeatherForQuery and
\* fetchWeatherForCoords, the upstream responses arriving in any order, and
\* the clock advancing.  A step is the code that runs between two awaits of
\* a call; the continuation of fetchWeatherForQuery after the inner
\* fetchWeatherForCoords settles runs in the same turn of the event loop and
\* is part of the step that settles it.
\* ------------------------------------------------------------------------
ReqIds == 1..NumReqs

\* a call: pc is the await it is suspended at; lat, lon and label are the
\* arguments of (the inner) fetchWeatherForCoords; issued lists the upstream
\* requests sent so far; geo, fc and aq are the geocoding, forecast and
\* air-quality responses received ("none", "status", "json", "data", and
\* for geocoding "empty": a body without results); hit names the cache
\* lookup that supplied the snapshot and hitTime the clock when that lookup
\* was made; found is what the persisted list held under the coordinate key
\* when the call came to store its snapshot
IdleReq ==
    [pc |-> "idle", kind |-> "none", query |-> <<>>, lat |-> 0, lon |-> 0,
     label |-> Undefined, weather |-> Null, issued |-> <<>>, geo |-> "none",
     fc |-> "none", aq |-> "none", hit |-> "none", hitTime |-> 0,
     found |-> "none"]

\* the record of a settled call; last holds it until the next step
Settled(req, outcome, result, error) ==
    [kind |-> req.kind, query |-> req.query, lat |-> req.lat, lon |-> req.lon,
     label |-> req.label, outcome |-> outcome, result |-> result,
     error |-> error, issued |-> req.issued, geo |-> req.geo, fc |-> req.fc,
     aq |-> req.aq, hit |-> req.hit, hitTime |-> req.hitTime,
     found |-> req.found]

NoCall == Settled(IdleReq, "none", Null, "")

\* the lowest free call slot
FreeSlot(r) ==
    /\ reqs[r].pc = "idle"
    /\ \A s \in DOMAIN reqs : s < r => reqs[s].pc # "idle"

\* what a geocoding response is: a failure, a body without results, or a
\* body with results
GeocodeKind(response) ==
    IF response.kind # "data" THEN response.kind
    ELSE IF IsArray(response.data.results) /\ Len(response.data.results.arr) > 0
         THEN "data"
         ELSE "empty"

\* the cache lookup that opens fetchWeatherForCoords
lookupCoords(raw, lat, lon, labelOverride, t1, t2) ==
    LET cacheKey == makeCoordsCacheKey(lat, lon)
        cached == getCachedWeather(raw, cacheKey, t1, t2)
    IN  [weather |-> IF cached.ret = Thrown THEN Thrown
                     ELSE IF cached.ret # Null
                     THEN [cached.ret EXCEPT
                             !.locationLabel = Coalesce(labelOverride, @)]
                     ELSE Null,
         storage |-> cached.storage]

\* mutant: a failed air-quality request fails the call
withAirQuality_Rethrow(weather, response) ==
    LET fetched == fetchJson(response)
    IN  IF fetched.ok
        THEN [ok |-> TRUE,
              weather |-> [weather EXCEPT
                             !.hourly = mergeAirQuality(@, fetchAirQuality(fetched.data))]]
        ELSE [ok |-> FALSE, weather |-> Null]

\* the try / catch around the air-quality merge of fetchWeatherForCoords
withAirQuality(weather, response) ==
    LET fetched == fetchJson(response)
    IN  IF fetched.ok
        THEN [ok |-> TRUE,
              weather |-> [weather EXCEPT
                             !.hourly = mergeAirQuality(@, fetchAirQuality(fetched.data))]]
        ELSE [ok |-> TRUE, weather |-> weather]

InitFetch ==
    /\ now = 0
    /\ localStorage = NoItem
    /\ op = NoOp
    /\ ret = Null
    /\ reqs = [r \in ReqIds |-> IdleReq]
    /\ last = NoCall
    /\ fx = Null

\* fetchWeatherForQuery(query) up to its first await
StartQuery(r, query) ==
    /\ FreeSlot(r)
    /\ \E t2 \in LaterReads(now, FetchTickMs, FetchMaxTicks) :
        LET normalized == trim(query)
            cacheKey == makeQueryCacheKey(normalized)
            cached == getCachedWeather(localStorage, cacheKey, now, t2)
            call == [IdleReq EXCEPT !.kind = "query", !.query = query]
        IN  /\ now' = t2
            /\ localStorage' = cached.storage
            /\ IF cached.ret = Thrown
               THEN /\ reqs' = reqs
                    /\ last' = Settled(call, "rejected", Null, "SecurityError")
               ELSE IF cached.ret # Null
               THEN /\ reqs' = reqs
                    /\ last' = Settled([call EXCEPT !.hit = "query", !.hitTime = now],
                                       "resolved", cached.ret, "")
               ELSE /\ reqs' = [reqs EXCEPT ![r] =
                                  [call EXCEPT !.pc = "geocoding",
                                               !.issued = <<"geocoding">>]]
                    /\ last' = NoCall
    /\ UNCHANGED <<op, ret, fx>>

\* fetchWeatherForCoords(lat, lon, labelOverride) called directly, up to its
\* first await
StartCoords(r, place, labelOverride) ==
    /\ FreeSlot(r)
    /\ \E t2 \in LaterReads(now, FetchTickMs, FetchMaxTicks) :
        LET found == lookupCoords(localStorage, place.lat, place.lon,
                                  labelOverride, now, t2)
            call == [IdleReq EXCEPT !.kind = "coords", !.lat = place.lat,
                                    !.lon = place.lon, !.label = labelOverride]
        IN  /\ now' = t2
            /\ localStorage' = found.storage
            /\ IF found.weather = Thrown
               THEN /\ reqs' = reqs
                    /\ last' = Settled(call, "rejected", Null, "SecurityError")
               ELSE IF found.weather # Null
               THEN /\ reqs' = reqs
                    /\ last' = Settled([call EXCEPT !.hit = "coords", !.hitTime = now],
                                       "resolved", found.weather, "")
               ELSE /\ reqs' = [reqs EXCEPT ![r] =
                                  [call EXCEPT !.pc = "forecast",
                                               !.issued = <<"forecast">>]]
                    /\ last' = NoCall
    /\ UNCHANGED <<op, ret, fx>>

\* mutant: a failed call stores an empty list
Reject_ClearsCache(r, call, error) ==
    /\ reqs' = [reqs EXCEPT ![r] = IdleReq]
    /\ last' = Settled(call, "rejected", Null, error)
    /\ now' = now
    /\ localStorage' = saveWeatherCache(localStorage, <<>>)

\* mutant: the failure is swallowed and the call resolves without a snapshot
Reject_Swallow(r, call, error) ==
    /\ reqs' = [reqs EXCEPT ![r] = IdleReq]
    /\ last' = Settled(call, "resolved", Null, "")
    /\ UNCHANGED <<now, localStorage>>

\* the call rejects with the error
Reject(r, call, error) ==
    /\ reqs' = [reqs EXCEPT ![r] = IdleReq]
    /\ last' = Settled(call, "rejected", Null, error)
    /\ UNCHANGED <<now, localStorage>>

\* the geocoding response arrives: geocodeLocation returns or throws, and
\* fetchWeatherForQuery calls fetchWeatherForCoords, which runs up to its
\* first await or returns the cached snapshot, which fetchWeatherForQuery
\* stores under the query key
GeocodeResponse(r, response) ==
    /\ reqs[r].pc = "geocoding"
    /\ LET geo == geocodeLocation(trim(reqs[r].query), response)
           got == [reqs[r] EXCEPT !.geo = GeocodeKind(response)]
       IN  IF ~geo.ok THEN Reject(r, got, geo.error)
           ELSE IF StorageThrows(localStorage) THEN Reject(r, got, "SecurityError")
           ELSE \E t2 \in LaterReads(now, FetchTickMs, FetchMaxTicks) :
                LET found == lookupCoords(localStorage, geo.lat, geo.lon,
                                          geo.label, now, t2)
                    call == [got EXCEPT !.lat = geo.lat, !.lon = geo.lon,
                                        !.label = geo.label]
                    served == [call EXCEPT !.hit = "coords", !.hitTime = now]
                IN  /\ now' = t2
                    /\ IF found.weather # Null
                       THEN /\ localStorage' \in
                                  setCachedWeather(found.storage,
                                      makeQueryCacheKey(trim(call.query)),
                                      found.weather, t2, t2)
                            /\ reqs' = [reqs EXCEPT ![r] = IdleReq]
                            /\ last' = Settled(served, "resolved", found.weather, "")
                       ELSE /\ localStorage' = found.storage
                            /\ reqs' = [reqs EXCEPT ![r] =
                                          [call EXCEPT !.pc = "forecast",
                                              !.issued = Append(@, "forecast")]]
                            /\ last' = NoCall
    /\ UNCHANGED <<op, ret, fx>>

\* mutant: the snapshot is stored as soon as it is built, before the
\* air-quality request
ForecastResponse_StoreEarly(r, response) ==
    /\ reqs[r].pc = "forecast"
    /\ LET fetched == fetchJson(response)
           got == [reqs[r] EXCEPT !.fc = response.kind]
           built == buildWeather(reqs[r].lat, reqs[r].lon, reqs[r].label,
                                 fetched.data, now)
       IN  IF ~fetched.ok THEN Reject(r, got, fetched.error)
           ELSE /\ reqs' = [reqs EXCEPT ![r] =
                              [got EXCEPT !.pc = "airQuality",
                                          !.weather = built,
                                          !.issued = Append(@, "airQuality")]]
                /\ last' = NoCall
                /\ localStorage' \in
                      setCachedWeather(localStorage,
                          makeCoordsCacheKey(reqs[r].lat, reqs[r].lon), built, now, now)
                /\ UNCHANGED now
    /\ UNCHANGED <<op, ret, fx>>

\* the forecast response arrives: the snapshot is built, stamped with the
\* clock, and the air-quality request is sent
ForecastResponse(r, response) ==
    /\ reqs[r].pc = "forecast"
    /\ LET fetched == fetchJson(response)
           got == [reqs[r] EXCEPT !.fc = response.kind]
       IN  IF ~fetched.ok THEN Reject(r, got, fetched.error)
           ELSE /\ reqs' = [reqs EXCEPT ![r] =
                              [got EXCEPT !.pc = "airQuality",
                                        !.weather = buildWeather(reqs[r].lat, reqs[r].lon,
                                                                 reqs[r].label,
                                                                 fetched.data, now),
                                        !.issued = Append(@, "airQuality")]]
                /\ last' = NoCall
                /\ UNCHANGED <<now, localStorage>>
    /\ UNCHANGED <<op, ret, fx>>

\* mutant: a snapshot built while the air-quality request failed is returned
\* but not stored
AirQualityResponse_StoreOnlyWithAirQuality(r, response) ==
    /\ reqs[r].pc = "airQuality"
    /\ LET merged == withAirQuality(reqs[r].weather, response)
           call == [reqs[r] EXCEPT !.aq = response.kind]
       IN  \E stored \in IF response.kind = "data"
                          THEN setCachedWeather(localStorage,
                                   makeCoordsCacheKey(call.lat, call.lon),
                                   merged.weather, now, now)
                          ELSE {localStorage} :
               /\ now' = now
               /\ localStorage' = stored
               /\ reqs' = [reqs EXCEPT ![r] = IdleReq]
               /\ last' = Settled(call, "resolved", merged.weather, "")
    /\ UNCHANGED <<op, ret, fx>>

\* the air-quality response arrives: the samples are merged or the failure
\* is swallowed, the snapshot is stored under the coordinate key, and for a
\* query call under the query key as well
AirQualityResponse(r, response) ==
    /\ reqs[r].pc = "airQuality"
    /\ LET merged == withAirQuality(reqs[r].weather, response)
           call == [reqs[r] EXCEPT
                      !.aq = response.kind,
                      !.found = Found(localStorage,
                                      makeCoordsCacheKey(reqs[r].lat, reqs[r].lon), now)]
       IN  IF ~merged.ok THEN Reject(r, call, response.kind)
           ELSE IF StorageThrows(localStorage) THEN Reject(r, call, "SecurityError")
           ELSE \E t2 \in LaterReads(now, FetchTickMs, FetchMaxTicks) :
                \E stored \in setCachedWeather(localStorage,
                                  makeCoordsCacheKey(call.lat, call.lon),
                                  merged.weather, now, t2) :
                    /\ now' = t2
                    /\ localStorage' \in
                          IF call.kind = "query"
                          THEN setCachedWeather(stored,
                                   makeQueryCacheKey(trim(call.query)),
                                   merged.weather, t2, t2)
                          ELSE {stored}
                    /\ reqs' = [reqs EXCEPT ![r] = IdleReq]
                    /\ last' = Settled(call, "resolved", merged.weather, "")
    /\ UNCHANGED <<op, ret, fx>>

FetchTick ==
    /\ now + FetchTickMs <= FetchTickMs * FetchMaxTicks
    /\ now' = now + FetchTickMs
    /\ last' = NoCall
    /\ UNCHANGED <<localStorage, op, ret, reqs, fx>>

NextFetch ==
    \/ \E r \in ReqIds : \E query \in QueryInputs : StartQuery(r, query)
    \/ \E r \in ReqIds : \E place \in CoordInputs :
          \E labelOverride \in LabelInputs : StartCoords(r, place, labelOverride)
    \/ \E r \in ReqIds : \E response \in GeocodeResponses : GeocodeResponse(r, response)
    \/ \E r \in ReqIds : \E response \in ForecastResponses : ForecastResponse(r, response)
    \/ \E r \in ReqIds : \E response \in AirQualityResponses : AirQualityResponse(r, response)
    \/ FetchTick

SpecFetch == InitFetch /\ [][NextFetch]_vars

\* ------------------------------------------------------------------------
\* Race specification: two fetchWeatherForCoords calls for coordinates with
\* the same key in flight at once, their upstream responses arriving in any
\* order, while calls for other places settle and store their snapshots.
\* ------------------------------------------------------------------------
RaceIds == 1..NumRaceReqs

\* the key of the i-th other place
OtherKey(i) == makeQueryCacheKey(<<Letters[i]>>)

\* the number of persisted entries under keys of other places
OthersPersisted ==
    Cardinality({i \in 1..WEATHER_CACHE_MAX_ENTRIES :
                    PersistedEntry(localStorage, OtherKey(i)) # Null})

InitRace ==
    /\ now = 0
    /\ localStorage = NoItem
    /\ op = NoOp
    /\ ret = Null
    /\ reqs = [r \in RaceIds |-> IdleReq]
    /\ last = NoCall
    /\ fx = Null

\* a call for the place is made
RaceStart(r, place) ==
    /\ StartCoords(r, place, Str(<<"Your location">>))
    /\ now' = now

\* the forecast of a call arrives
RaceForecast(r, response) ==
    /\ response.kind = "data"
    /\ ForecastResponse(r, response)

\* the air-quality response of a call arrives and the call stores its
\* snapshot
RaceAirQuality(r, response) ==
    /\ response.kind # "json"
    /\ AirQualityResponse(r, response)
    /\ now' = now

\* a call for another place settles: its snapshot, built at this clock
\* value, is stored under its key
RaceOther(i) ==
    /\ i = OthersPersisted + 1
    /\ CacheSet(OtherKey(i), CacheSnapshot(now))
    /\ now' = now

RaceTick ==
    /\ now + FetchTickMs <= FetchTickMs * RaceMaxTicks
    /\ FetchTick

NextRace ==
    \/ \E r \in RaceIds : \E place \in CoordInputs : RaceStart(r, place)
    \/ \E r \in RaceIds : \E response \in ForecastResponses : RaceForecast(r, response)
    \/ \E r \in RaceIds : \E response \in AirQualityResponses : RaceAirQuality(r, response)
    \/ \E i \in 1..WEATHER_CACHE_MAX_ENTRIES : RaceOther(i)
    \/ RaceTick

SpecRace == InitRace /\ [][NextRace]_vars

\* ------------------------------------------------------------------------
\* Pair specification: as the race specification, but the calls in flight at
\* once are for places with different keys: the first call is for one
\* place, and every call made while it is in flight for the other.
\* ------------------------------------------------------------------------
PlaceB == [lat |-> PlaceA.lat + 10000, lon |-> PlaceA.lon]

PairPlace(r) == IF r = 1 THEN PlaceA ELSE PlaceB

NextPair ==
    \/ \E r \in RaceIds : RaceStart(r, PairPlace(r))
    \/ \E r \in RaceIds : \E response \in ForecastResponses : RaceForecast(r, response)
    \/ \E r \in RaceIds : \E response \in AirQualityResponses : RaceAirQuality(r, response)
    \/ \E i \in 1..WEATHER_CACHE_MAX_ENTRIES : RaceOther(i)
    \/ RaceTick

SpecPair == InitRace /\ [][NextPair]_vars

\* ------------------------------------------------------------------------
\* Storage specification: the cache functions and direct coordinate calls
\* on a storage backend that is unavailable or fails.  The clock stands
\* still.
\* ------------------------------------------------------------------------
StorageBackends ==
    {NoWindow, NoLocalStorage, AccessDenied, GetItemThrows, SetItemThrows,
     NotJson, NotAnArray}

StorageKeys ==
    {makeQueryCacheKey(<<"a">>), makeCoordsCacheKey(PlaceA.lat, PlaceA.lon)}

InitStorage ==
    /\ now = 0
    /\ localStorage \in StorageBackends
    /\ op = NoOp
    /\ ret = Null
    /\ reqs = [r \in ReqIds |-> IdleReq]
    /\ last = NoCall
    /\ fx = Null

StorageGet(key) ==
    /\ CacheGet(key)
    /\ now' = now

StorageSet(key) ==
    /\ CacheSet(key, CacheSnapshot(now))
    /\ now' = now

StorageStart(r, place) ==
    /\ StartCoords(r, place, Undefined)
    /\ now' = now

StorageForecast(r, response) == ForecastResponse(r, response)

StorageAirQuality(r, response) ==
    /\ AirQualityResponse(r, response)
    /\ now' = now

NextStorage ==
    \/ \E key \in StorageKeys : StorageGet(key)
    \/ \E key \in StorageKeys : StorageSet(key)
    \/ \E r \in ReqIds : \E place \in CoordInputs : StorageStart(r, place)
    \/ \E r \in ReqIds : \E response \in ForecastResponses : StorageForecast(r, response)
    \/ \E r \in ReqIds : \E response \in AirQualityResponses : StorageAirQuality(r, response)

SpecStorage == InitStorage /\ [][NextStorage]_vars

\* ------------------------------------------------------------------------
\* Merge specification: a forecast payload and an air-quality response are
\* drawn, the snapshot is built from the first and the second is merged
\* into it.
\* ------------------------------------------------------------------------
RECURSIVE SeqsUpTo(_, _)
SeqsUpTo(S, n) ==
    IF n = 0 THEN {<<>>}
    ELSE LET shorter == SeqsUpTo(S, n - 1)
         IN  shorter \cup {Append(seq, x) : seq \in shorter, x \in S}

\* the day of Hour0 and Hour1, and the day after
Day0 == "2025-12-05"

Day1 == "2025-12-06"

\* the forecast payloads of the merge specification: any hourly time array
\* up to the bound, or none; temperature_2m absent, shorter than two hours
\* or complete; a daily time array of one day, of two days in either order
\* or of the same day twice (the daily variable arrays hold one value)
MergeForecastPayloads ==
    {[ForecastPayload(times, temperatures) EXCEPT !.daily.time = Arr(days)] :
        times \in {Undefined} \cup {Arr(seq) : seq \in SeqsUpTo({Hour0, Hour1}, MergeMaxLen)},
        temperatures \in {Undefined, Arr(<<Num(20)>>), Arr(<<Num(20), Num(19)>>)},
        days \in {<<Day0>>, <<Day0, Day1>>, <<Day1, Day0>>, <<Day0, Day0>>}}

MergeAirQualityResponses ==
    {[kind |-> "status", data |-> Null],
     [kind |-> "json", data |-> Null],
     [kind |-> "data", data |-> Null]}
    \cup {[kind |-> "data", data |-> AirQualityPayload(Arr(seq))] :
            seq \in SeqsUpTo({Hour0, Hour1, Hour0Seconds}, MergeMaxLen)}

InitMerge ==
    /\ now = 0
    /\ localStorage = NoItem
    /\ op = NoOp
    /\ ret = Null
    /\ reqs = <<>>
    /\ last = Null
    /\ fx \in {[stage |-> "payloads", forecast |-> forecast,
                 airQuality |-> airQuality, weather |-> Null] :
                    forecast \in MergeForecastPayloads,
                    airQuality \in MergeAirQualityResponses}

\* the snapshot is built from the forecast payload
MergeBuild ==
    /\ fx.stage = "payloads"
    /\ fx' = [fx EXCEPT !.stage = "built",
                        !.weather = buildWeather(PlaceA.lat, PlaceA.lon, Undefined,
                                                 fx.forecast, now)]
    /\ UNCHANGED <<now, localStorage, op, ret, reqs, last>>

\* the air-quality response is merged into the snapshot
MergeAttach ==
    /\ fx.stage = "built"
    /\ fx' = [fx EXCEPT !.stage = "merged",
                        !.weather = withAirQuality(fx.weather, fx.airQuality).weather]
    /\ UNCHANGED <<now, localStorage, op, ret, reqs, last>>

NextMerge == MergeBuild \/ MergeAttach

SpecMerge == InitMerge /\ [][NextMerge]_vars

\* ------------------------------------------------------------------------
\* Location specification: parseLocationQuery, geocodeLocation and
\* reverseGeocodeCoords applied to one input each.  fx holds the function,
\* its query, the response to its request and, once applied, its output.
\* ------------------------------------------------------------------------
\* geocoding responses: the failures, and every list of up to GeoMaxResults
\* results whose admin1 is absent, "Delaware", "delaware" or "Georgia"; the
\* i-th result of a list lies at latitude i
GeoResponses ==
    LET admin1s == {Undefined, Str(StateName(<<"D", "E">>)),
                    Str(toLowerCase(StateName(<<"D", "E">>))),
                    Str(StateName(<<"G", "A">>))}
    IN  {[kind |-> "status", data |-> Null],
         [kind |-> "json", data |-> Null],
         [kind |-> "data", data |-> [results |-> Undefined]]}
        \cup {[kind |-> "data",
               data |-> [results |-> Arr([i \in 1..Len(a) |->
                            [name |-> Str(<<"a">>),
                             admin1 |-> a[i],
                             country_code |-> Str(<<"US">>),
                             latitude |-> i,
                             longitude |-> 0 - i]])]] :
                a \in SeqsUpTo(admin1s, GeoMaxResults)}

\* reverse-geocoding responses: the failures (fetch rejecting included), a
\* null body, a body without address, and every address whose fields are
\* absent or set; country_code may also be a number
ReverseResponses ==
    {[kind |-> "network", data |-> Null],
     [kind |-> "status", data |-> Null],
     [kind |-> "json", data |-> Null],
     [kind |-> "data", data |-> Null],
     [kind |-> "data", data |-> [address |-> Undefined]]}
    \cup {[kind |-> "data", data |-> [address |-> address]] :
            address \in [city : {Undefined, Str(<<"c">>)},
                         town : {Undefined, Str(<<"t">>)},
                         village : {Undefined, Str(<<"v">>)},
                         hamlet : {Undefined, Str(<<"h">>)},
                         suburb : {Undefined, Str(<<"s">>)},
                         state : {Undefined, Str(<<"S", "t">>)},
                         region : {Undefined, Str(<<"R">>)},
                         country_code : {Undefined, Str(<<"u", "s">>), Num(1)},
                         postcode : {Undefined, Str(<<"8">>)}]}

InitLocation ==
    /\ now = 0
    /\ localStorage = NoItem
    /\ op = NoOp
    /\ ret = Null
    /\ reqs = <<>>
    /\ last = Null
    /\ fx \in
          {[fn |-> "parseLocationQuery", stage |-> "input", query |-> query,
            response |-> Null, output |-> Null] :
                query \in SeqsUpTo({"1", "a", "B", ",", " "}, ParseMaxLen)}
          \cup
          {[fn |-> "geocodeLocation", stage |-> "input", query |-> query,
            response |-> response, output |-> Null] :
                query \in {<<"a", ",", "D", "E">>, <<"a", " ", ",", " ", "d", "e">>,
                           <<"a", ",", "Z", "Z">>, <<"a">>, <<"D", "E">>},
                response \in GeoResponses}
          \cup
          {[fn |-> "reverseGeocodeCoords", stage |-> "input", query |-> <<>>,
            response |-> response, output |-> Null] :
                response \in ReverseResponses}

ParseQuery ==
    /\ fx.fn = "parseLocationQuery" /\ fx.stage = "input"
    /\ fx' = [fx EXCEPT !.stage = "done", !.output = parseLocationQuery(fx.query)]
    /\ UNCHANGED <<now, localStorage, op, ret, reqs, last>>

Geocode ==
    /\ fx.fn = "geocodeLocation" /\ fx.stage = "input"
    /\ fx' = [fx EXCEPT !.stage = "done",
                        !.output = geocodeLocation(fx.query, fx.response)]
    /\ UNCHANGED <<now, localStorage, op, ret, reqs, last>>

\* the function exported by locationApi.js is called
ReverseGeocode ==
    /\ fx.fn = "reverseGeocodeCoords" /\ fx.stage = "input"
    /\ fx' = [fx EXCEPT !.stage = "locationApi",
                        !.output = reverseGeocodeCoords(fx.response)]
    /\ UNCHANGED <<now, localStorage, op, ret, reqs, last>>

\* the function defined in weatherApi.js is called
ReverseGeocodeWeatherApi ==
    /\ fx.fn = "reverseGeocodeCoords" /\ fx.stage = "input"
    /\ fx' = [fx EXCEPT !.stage = "weatherApi",
                        !.output = reverseGeocodeCoordsWeatherApi(fx.response)]
    /\ UNCHANGED <<now, localStorage, op, ret, reqs, last>>

NextLocation ==
    \/ ParseQuery
    \/ Geocode
    \/ ReverseGeocode
    \/ ReverseGeocodeWeatherApi

SpecLocation == InitLocation /\ [][NextLocation]_vars

\* ------------------------------------------------------------------------
\* Road conditions
\* ------------------------------------------------------------------------
\* Numbers are carried in fixed units: a temperature in tenths of a degree
\* Celsius, a precipitation in hundredths of a millimetre.  A comparison
\* with NaN is false.
\* the weather codes listed in classifyRoadCondition
WintryCodes == {56, 57, 66, 67, 71, 73, 75, 77, 85, 86, 96, 99}

\* mutant: the weather code is tested before the temperature and the
\* freezing test is lost
classifyRoadCondition_NoFreezingTest(temperatureC, precipitationMm, weatherCode) ==
    IF temperatureC = Null \/ temperatureC = Undefined THEN "unknown"
    ELSE LET precip == Coalesce(precipitationMm, Num(0))
         IN  IF precip # NaN /\ precip.num < 10 THEN "dry"
             ELSE IF /\ weatherCode # Null /\ weatherCode # Undefined
                     /\ weatherCode # NaN /\ weatherCode.num \in WintryCodes
             THEN "snow_ice_risk"
             ELSE IF precip # NaN /\ precip.num >= 10 THEN "wet"
             ELSE "dry"

classifyRoadCondition(temperatureC, precipitationMm, weatherCode) ==
    IF temperatureC = Null \/ temperatureC = Undefined THEN "unknown"
    ELSE LET precip == Coalesce(precipitationMm, Num(0))
         IN  IF precip # NaN /\ precip.num < 10 THEN "dry"
             ELSE IF temperatureC # NaN /\ temperatureC.num <= 0
             THEN "snow_ice_risk"
             ELSE IF /\ weatherCode # Null /\ weatherCode # Undefined
                     /\ weatherCode # NaN /\ weatherCode.num \in WintryCodes
             THEN "snow_ice_risk"
             ELSE IF precip # NaN /\ precip.num >= 10 THEN "wet"
             ELSE "dry"

\* roadConditionInfo(category): the label; the detail text is carried as
\* the conditions it states
roadConditionInfo(category) ==
    IF category = "dry"
    THEN [label |-> "Likely dry pavement",
          detail |-> {"precipitation minimal", "above freezing"}]
    ELSE IF category = "wet"
    THEN [label |-> "Wet roads",
          detail |-> {"measurable precipitation", "above freezing"}]
    ELSE IF category = "snow_ice_risk"
    THEN [label |-> "Snow / ice risk",
          detail |-> {"below freezing or wintry precipitation"}]
    ELSE [label |-> "Conditions unknown", detail |-> {"insufficient data"}]

\* ------------------------------------------------------------------------
\* Formatting
\* ------------------------------------------------------------------------
\* A formatted text is [text] for a placeholder, and [value, decimals, unit]
\* for a number printed with that many decimals (value counts units of the
\* last decimal) or for NaN, which prints as "NaN", followed by the unit.
\* The placeholders are U+2013 (formatTemperature, formatPrecipitation) and
\* U+2014 (formatWindSpeed, formatVisibility).
\* tempC in tenths of a degree: Math.round(tempC), Math.round(tempC * 9 / 5 + 32)
formatTemperature(tempC, unitSystem) ==
    IF tempC = Null \/ tempC = Undefined THEN [text |-> "EN DASH"]
    ELSE IF unitSystem = "metric"
    THEN [value |-> IF tempC = NaN THEN NaN ELSE Num(MathRound(tempC.num)),
          decimals |-> 0, unit |-> "deg C"]
    ELSE [value |-> IF tempC = NaN THEN NaN
                    ELSE Num((9 * tempC.num + 1600 + 25) \div 50),
          decimals |-> 0, unit |-> "deg F"]

\* precipMm in hundredths of a millimetre: toFixed(1), (precipMm / 25.4).toFixed(2)
formatPrecipitation(precipMm, unitSystem) ==
    IF precipMm = Null \/ precipMm = Undefined THEN [text |-> "EN DASH"]
    ELSE IF unitSystem = "metric"
    THEN [value |-> IF precipMm = NaN THEN NaN ELSE Num(MathRound(precipMm.num)),
          decimals |-> 1, unit |-> " mm"]
    ELSE [value |-> IF precipMm = NaN THEN NaN
                    ELSE Num((20 * precipMm.num + 254) \div 508),
          decimals |-> 2, unit |-> " in"]

\* speedKmh in whole km/h: Math.round(speedKmh), Math.round(speedKmh / 1.609344)
formatWindSpeed(speedKmh, unitSystem) ==
    IF speedKmh = Null \/ speedKmh = Undefined \/ speedKmh = NaN
    THEN [text |-> "EM DASH"]
    ELSE IF unitSystem = "metric"
    THEN [value |-> Num(speedKmh.num), decimals |-> 0, unit |-> " km/h"]
    ELSE [value |-> Num((2000000 * speedKmh.num + 1609344) \div 3218688),
          decimals |-> 0, unit |-> " mph"]

\* meters in whole metres: (meters / 1000).toFixed(1),
\* (meters * 6.27137e-4).toFixed(1)
formatVisibility(meters, unitSystem) ==
    IF meters = Null \/ meters = Undefined \/ meters = NaN
    THEN [text |-> "EM DASH"]
    ELSE IF unitSystem = "metric"
    THEN [value |-> Num((meters.num + 50) \div 100), decimals |-> 1, unit |-> " km"]
    ELSE [value |-> Num((1254274 * meters.num + 100000000) \div 200000000),
          decimals |-> 1, unit |-> " mi"]

\* ------------------------------------------------------------------------
\* Classification specification: the classifiers and the formatters applied
\* to one input each.  fx holds the function, its arguments and, once
\* applied, its output.
\* ------------------------------------------------------------------------
InitClassify ==
    /\ now = 0
    /\ localStorage = NoItem
    /\ op = NoOp
    /\ ret = Null
    /\ reqs = <<>>
    /\ last = Null
    /\ fx \in
          {[fn |-> "classifyRoadCondition", stage |-> "input",
            args |-> <<temperatureC, precipitationMm, weatherCode>>,
            output |-> Null] :
                temperatureC \in {Null, Undefined, NaN, Num(-50), Num(0), Num(1), Num(100)},
                precipitationMm \in {Null, Undefined, NaN, Num(0), Num(9), Num(10), Num(200)},
                weatherCode \in {Null, Undefined, Num(0), Num(61), Num(95)}
                                \cup {Num(code) : code \in WintryCodes}}
          \cup
          {[fn |-> "classifyUsAqi", stage |-> "input", args |-> <<usAqi>>,
            output |-> Null] :
                usAqi \in {Null, Undefined, NaN}
                          \cup {Num(tenths) : tenths \in (0 - 10)..AqiMaxTenths}}
          \cup
          {[fn |-> fn, stage |-> "input", args |-> <<value, unitSystem>>,
            output |-> Null] :
                fn \in {"formatTemperature", "formatPrecipitation",
                        "formatWindSpeed", "formatVisibility"},
                value \in {Null, Undefined, NaN}
                          \cup {Num(n) : n \in 0..FormatMaxValue},
                unitSystem \in {"metric", "imperial"}}

\* the component classifies and looks the category up
ClassifyRoad ==
    /\ fx.fn = "classifyRoadCondition" /\ fx.stage = "input"
    /\ LET category == classifyRoadCondition(fx.args[1], fx.args[2], fx.args[3])
       IN  fx' = [fx EXCEPT !.stage = "done",
                            !.output = [category |-> category,
                                        info |-> roadConditionInfo(category)]]
    /\ UNCHANGED <<now, localStorage, op, ret, reqs, last>>

ClassifyAqi ==
    /\ fx.fn = "classifyUsAqi" /\ fx.stage = "input"
    /\ fx' = [fx EXCEPT !.stage = "done", !.output = classifyUsAqi(fx.args[1])]
    /\ UNCHANGED <<now, localStorage, op, ret, reqs, last>>

FormatTemperature ==
    /\ fx.fn = "formatTemperature" /\ fx.stage = "input"
    /\ fx' = [fx EXCEPT !.stage = "done",
                        !.output = formatTemperature(fx.args[1], fx.args[2])]
    /\ UNCHANGED <<now, localStorage, op, ret, reqs, last>>

FormatPrecipitation ==
    /\ fx.fn = "formatPrecipitation" /\ fx.stage = "input"
    /\ fx' = [fx EXCEPT !.stage = "done",
                        !.output = formatPrecipitation(fx.args[1], fx.args[2])]
    /\ UNCHANGED <<now, localStorage, op, ret, reqs, last>>

FormatWindSpeed ==
    /\ fx.fn = "formatWindSpeed" /\ fx.stage = "input"
    /\ fx' = [fx EXCEPT !.stage = "done",
                        !.output = formatWindSpeed(fx.args[1], fx.args[2])]
    /\ UNCHANGED <<now, localStorage, op, ret, reqs, last>>

FormatVisibility ==
    /\ fx.fn = "formatVisibility" /\ fx.stage = "input"
    /\ fx' = [fx EXCEPT !.stage = "done",
                        !.output = formatVisibility(fx.args[1], fx.args[2])]
    /\ UNCHANGED <<now, localStorage, op, ret, reqs, last>>

NextClassify ==
    \/ ClassifyRoad
    \/ ClassifyAqi
    \/ FormatTemperature
    \/ FormatPrecipitation
    \/ FormatWindSpeed
    \/ FormatVisibility

SpecClassify == InitClassify /\ [][NextClassify]_vars

\* ------------------------------------------------------------------------
\* Repeated-search specification: fetchWeatherForQuery is called for a few
\* distinct queries, one call after the other, each call running to its end
\* at one clock value, and the clock advances between calls.  Every query
\* geocodes to a place of its own.  fx keeps the history: the queries whose
\* snapshot was fetched from the network, latest fetch first, each with the
\* clock value of the fetch, and the last call.
\* ------------------------------------------------------------------------
\* fetchWeatherForCoords run to its end: the outcomes, one per way the trim
\* can order entries of equal fetchedAt
fetchWeatherForCoords(raw, lat, lon, labelOverride, forecast, airQuality, t) ==
    LET found == lookupCoords(raw, lat, lon, labelOverride, t, t)
        fetched == fetchJson(forecast)
    IN  IF found.weather = Thrown
        THEN {[outcome |-> "rejected", result |-> Null, issued |-> <<>>,
               error |-> "SecurityError", storage |-> raw]}
        ELSE IF found.weather # Null
        THEN {[outcome |-> "resolved", result |-> found.weather,
               issued |-> <<>>, error |-> "", storage |-> found.storage]}
        ELSE IF ~fetched.ok
        THEN {[outcome |-> "rejected", result |-> Null,
               issued |-> <<"forecast">>, error |-> fetched.error,
               storage |-> found.storage]}
        ELSE LET merged ==
                   withAirQuality(buildWeather(lat, lon, labelOverride,
                                               fetched.data, t),
                                  airQuality)
             IN  IF ~merged.ok
                 THEN {[outcome |-> "rejected", result |-> Null,
                        issued |-> <<"forecast", "airQuality">>,
                        error |-> airQuality.kind, storage |-> found.storage]}
                 ELSE {[outcome |-> "resolved", result |-> merged.weather,
                        issued |-> <<"forecast", "airQuality">>,
                        error |-> "", storage |-> stored] :
                          stored \in setCachedWeather(found.storage,
                                         makeCoordsCacheKey(lat, lon),
                                         merged.weather, t, t)}

\* mutant: the snapshot is not stored under the query key
fetchWeatherForQuery_CoordsKeyOnly(raw, query, geocode, forecast, airQuality, t) ==
    LET cached == getCachedWeather(raw, makeQueryCacheKey(trim(query)), t, t)
        geo == geocodeLocation(trim(query), geocode)
    IN  IF ~geo.ok
        THEN {[outcome |-> "rejected", result |-> Null,
               issued |-> <<"geocoding">>, error |-> geo.error,
               storage |-> cached.storage]}
        ELSE {[byCoords EXCEPT !.issued = <<"geocoding">> \o @] :
                 byCoords \in fetchWeatherForCoords(cached.storage, geo.lat,
                                  geo.lon, geo.label, forecast, airQuality, t)}

\* fetchWeatherForQuery run to its end
fetchWeatherForQuery(raw, query, geocode, forecast, airQuality, t) ==
    LET normalized == trim(query)
        cacheKey == makeQueryCacheKey(normalized)
        cached == getCachedWeather(raw, cacheKey, t, t)
        geo == geocodeLocation(normalized, geocode)
    IN  IF cached.ret = Thrown
        THEN {[outcome |-> "rejected", result |-> Null, issued |-> <<>>,
               error |-> "SecurityError", storage |-> raw]}
        ELSE IF cached.ret # Null
        THEN {[outcome |-> "resolved", result |-> cached.ret,
               issued |-> <<>>, error |-> "", storage |-> cached.storage]}
        ELSE IF ~geo.ok
        THEN {[outcome |-> "rejected", result |-> Null,
               issued |-> <<"geocoding">>, error |-> geo.error,
               storage |-> cached.storage]}
        ELSE UNION
               {IF byCoords.outcome = "rejected"
                THEN {[byCoords EXCEPT !.issued = <<"geocoding">> \o @]}
                ELSE {[byCoords EXCEPT !.issued = <<"geocoding">> \o @,
                                       !.storage = stored] :
                         stored \in setCachedWeather(byCoords.storage, cacheKey,
                                                     byCoords.result, t, t)} :
                   byCoords \in fetchWeatherForCoords(cached.storage, geo.lat,
                                    geo.lon, geo.label, forecast, airQuality, t)}

RepeatQueries == {<<Letters[i]>> : i \in 1..NumQueries}

\* the geocoding response for the i-th query: one result, a tenth of a
\* degree from the next
RepeatGeocodeResponse(query) ==
    LET i == CHOOSE n \in 1..NumQueries : query = <<Letters[n]>>
    IN  [kind |-> "data",
         data |-> [results |-> Arr(<<[name |-> Str(query),
                                      admin1 |-> Undefined,
                                      country_code |-> Str(<<"US">>),
                                      latitude |-> PlaceA.lat + 10000 * i,
                                      longitude |-> PlaceA.lon]>>)]]

RepeatForecastResponses ==
    {[kind |-> "status", data |-> Null],
     [kind |-> "data", data |-> ForecastPayload(Arr(<<Hour0>>), Arr(<<Num(20)>>))]}

RepeatAirQualityResponses ==
    {[kind |-> "status", data |-> Null],
     [kind |-> "data", data |-> AirQualityPayload(Arr(<<Hour0>>))]}

NoSearch == [key |-> <<>>, outcome |-> "none", result |-> Null, issued |-> <<>>]

InitRepeat ==
    /\ now = 0
    /\ localStorage = NoItem
    /\ op = NoOp
    /\ ret = Null
    /\ reqs = <<>>
    /\ last = Null
    /\ fx = [fetched |-> <<>>, call |-> NoSearch]

\* a search: the call runs to its end; a call that fetched a snapshot moves
\* its query to the front of the history
Search(query, forecast, airQuality) ==
    \E out \in fetchWeatherForQuery(localStorage, query,
                   RepeatGeocodeResponse(query), forecast, airQuality, now) :
        LET key == makeQueryCacheKey(trim(query))
        IN  /\ localStorage' = out.storage
            /\ fx' = [fetched |->
                        IF out.outcome = "resolved" /\ out.issued # <<>>
                           /\ out.issued[Len(out.issued)] = "airQuality"
                        THEN <<[key |-> key, time |-> now]>>
                             \o SelectSeq(fx.fetched, LAMBDA f : f.key # key)
                        ELSE fx.fetched,
                      call |-> [key |-> key, outcome |-> out.outcome,
                                result |-> out.result, issued |-> out.issued]]
            /\ UNCHANGED <<now, op, ret, reqs, last>>

RepeatTick ==
    /\ now + FetchTickMs <= FetchTickMs * RepeatMaxTicks
    /\ now' = now + FetchTickMs
    /\ UNCHANGED <<localStorage, op, ret, reqs, last, fx>>

NextRepeat ==
    \/ \E query \in RepeatQueries : \E forecast \in RepeatForecastResponses :
          \E airQuality \in RepeatAirQualityResponses :
             Search(query, forecast, airQuality)
    \/ RepeatTick

SpecRepeat == InitRepeat /\ [][NextRepeat]_vars

\* ------------------------------------------------------------------------
\* App specification: the state of the App component (query, loading, error,
\* weather, kept in fx), its two handlers and the callbacks that end a
\* request.  The form starts a request only while loading is false.  The
\* fetch of a request is run at the step that settles it.  The clock stands
\* still.
\* ------------------------------------------------------------------------
AppQueries == {<<Letters[1]>>, <<Letters[2]>>}

\* a failed geocoding request, and a result for either query
AppGeocodeResponses ==
    {[kind |-> "status", data |-> Null]}
        \cup {RepeatGeocodeResponse(query) : query \in AppQueries}

\* err.message of a failed geolocation attempt
PositionErrors == {"User denied Geolocation", "Timeout expired"}

NoRequest == [pc |-> "idle", query |-> <<>>, lat |-> 0, lon |-> 0]

\* the handler that ended last and how
NoHandler == [handler |-> "none", outcome |-> "none"]

InitApp ==
    /\ now = 0
    /\ localStorage = NoItem
    /\ op = NoOp
    /\ ret = Null
    /\ reqs = <<NoRequest>>
    /\ last = NoHandler
    /\ fx \in {[query |-> <<>>, loading |-> FALSE, error |-> Null,
                 weather |-> Null, geolocation |-> geolocation] :
                    geolocation \in BOOLEAN}

\* err.message || "Failed to fetch weather data."
ErrorMessage(error) ==
    IF error = "" THEN Str(<<"Failed to fetch weather data.">>) ELSE Str(<<error>>)

\* handleSubmitLocation up to its await
SubmitLocation(value) ==
    /\ ~fx.loading
    /\ reqs[1].pc = "idle"
    /\ fx' = [fx EXCEPT !.query = value, !.error = Null, !.loading = TRUE]
    /\ reqs' = <<[NoRequest EXCEPT !.pc = "query", !.query = value]>>
    /\ last' = NoHandler
    /\ UNCHANGED <<now, localStorage, op, ret>>

\* the awaited fetchWeatherForQuery settles: try, catch and finally of
\* handleSubmitLocation
QuerySettles(geocode, forecast, airQuality) ==
    /\ reqs[1].pc = "query"
    /\ \E out \in fetchWeatherForQuery(localStorage, reqs[1].query, geocode,
                                        forecast, airQuality, now) :
          /\ localStorage' = out.storage
          /\ fx' = IF out.outcome = "resolved"
                   THEN [fx EXCEPT !.weather = out.result, !.loading = FALSE]
                   ELSE [fx EXCEPT !.error = ErrorMessage(out.error),
                                   !.weather = Null, !.loading = FALSE]
          /\ last' = [handler |-> "handleSubmitLocation", outcome |-> out.outcome]
    /\ reqs' = <<NoRequest>>
    /\ UNCHANGED <<now, op, ret>>

\* handleUseMyLocation up to getCurrentPosition
UseMyLocation ==
    /\ ~fx.loading
    /\ reqs[1].pc = "idle"
    /\ IF ~fx.geolocation
       THEN /\ fx' = [fx EXCEPT !.error =
                        Str(<<"Geolocation is not supported by your browser.">>)]
            /\ reqs' = reqs
            /\ last' = [handler |-> "handleUseMyLocation",
                        outcome |-> "unsupported"]
       ELSE /\ fx' = [fx EXCEPT !.error = Null, !.loading = TRUE]
            /\ reqs' = <<[NoRequest EXCEPT !.pc = "locating"]>>
            /\ last' = NoHandler
    /\ UNCHANGED <<now, localStorage, op, ret>>

\* the success callback of getCurrentPosition up to its await
PositionSuccess(place) ==
    /\ reqs[1].pc = "locating"
    /\ reqs' = <<[NoRequest EXCEPT !.pc = "coords", !.lat = place.lat,
                                   !.lon = place.lon]>>
    /\ UNCHANGED <<now, localStorage, op, ret, last, fx>>

\* mutant: the error callback leaves loading as it is
PositionError_KeepsLoading(message) ==
    /\ reqs[1].pc = "locating"
    /\ fx' = [fx EXCEPT !.error =
                        Str(<<"Unable to get your location (", message, ").">>)]
    /\ reqs' = <<NoRequest>>
    /\ last' = [handler |-> "handleUseMyLocation", outcome |-> "no position"]
    /\ UNCHANGED <<now, localStorage, op, ret>>

\* the error callback of getCurrentPosition
PositionError(message) ==
    /\ reqs[1].pc = "locating"
    /\ fx' = [fx EXCEPT !.loading = FALSE,
                        !.error =
                        Str(<<"Unable to get your location (", message, ").">>)]
    /\ reqs' = <<NoRequest>>
    /\ last' = [handler |-> "handleUseMyLocation", outcome |-> "no position"]
    /\ UNCHANGED <<now, localStorage, op, ret>>

\* the awaited fetchWeatherForCoords settles: try, catch and finally of the
\* success callback
CoordsSettles(forecast, airQuality) ==
    /\ reqs[1].pc = "coords"
    /\ \E out \in fetchWeatherForCoords(localStorage, reqs[1].lat, reqs[1].lon,
                      Str(<<"Your location (", toFixed(reqs[1].lat, 2), ", ",
                            toFixed(reqs[1].lon, 2), ")">>),
                      forecast, airQuality, now) :
          /\ localStorage' = out.storage
          /\ fx' = IF out.outcome = "resolved"
                   THEN [fx EXCEPT !.weather = out.result, !.loading = FALSE]
                   ELSE [fx EXCEPT !.error = ErrorMessage(out.error),
                                   !.weather = Null, !.loading = FALSE]
          /\ last' = [handler |-> "handleUseMyLocation", outcome |-> out.outcome]
    /\ reqs' = <<NoRequest>>
    /\ UNCHANGED <<now, op, ret>>

\* the steps by which a network call or a geolocation callback resolves or
\* rejects
AppSettles ==
    \/ \E geocode \in AppGeocodeResponses :
          \E forecast \in RepeatForecastResponses :
             \E airQuality \in RepeatAirQualityResponses :
                QuerySettles(geocode, forecast, airQuality)
    \/ \E place \in CoordInputs : PositionSuccess(place)
    \/ \E message \in PositionErrors : PositionError(message)
    \/ \E forecast \in RepeatForecastResponses :
          \E airQuality \in RepeatAirQualityResponses :
             CoordsSettles(forecast, airQuality)

NextApp ==
    \/ \E value \in AppQueries : SubmitLocation(value)
    \/ UseMyLocation
    \/ AppSettles

SpecApp == InitApp /\ [][NextApp]_vars

\* what a step of AppSettles does to the request in flight: a position is
\* delivered and the request goes on to its fetch, or the request ends
Delivery ==
    /\ reqs[1].pc # "idle"
    /\ \/ reqs' = <<NoRequest>>
       \/ /\ reqs[1].pc = "locating"
          /\ \E place \in CoordInputs :
                reqs' = <<[NoRequest EXCEPT !.pc = "coords", !.lat = place.lat,
                                           !.lon = place.lon]>>

\* every network call and every geolocation callback eventually resolves or
\* rejects: no request stays in one stage forever
SpecAppLive == SpecApp /\ WF_reqs(Delivery)

\* ------------------------------------------------------------------------
\* Properties of the cache
\* ------------------------------------------------------------------------
Range(seq) == {seq[i] : i \in 1..Len(seq)}

PersistedOf(raw) == IF IsEntryList(raw) THEN JSONparse(raw) ELSE <<>>

\* the entry a set call described by o writes
WrittenEntry(o) ==
    [key |-> o.key,
     fetchedAt |-> o.weather.fetchedAt,
     expiresAt |-> o.time + WEATHER_CACHE_TTL_MS,
     weather |-> o.weather]

\* C1: getCachedWeather never returns the snapshot of an entry whose
\* expiresAt is at or before the current time: a snapshot it returns is the
\* one of the persisted entry under the key and that entry expires after the
\* clock value at which the call returns; for an expired entry it returns
\* null.
C1_NeverReturnsExpired ==
    op.name = "get" =>
        /\ op.found = "expired" => ret = Null
        /\ ret # Null =>
              LET e == PersistedEntry(localStorage, op.key)
              IN  e # Null /\ e.weather = ret /\ e.expiresAt > now

\* a get of a key whose entry expired returned null
C1_Witness == op.name = "get" /\ op.found = "expired" /\ ret = Null

\* C2: the persisted list never holds more than WEATHER_CACHE_MAX_ENTRIES
\* entries.
C2_AtMostMaxEntries == Len(Persisted) <= WEATHER_CACHE_MAX_ENTRIES

\* a set that loaded a full list of other keys left a full list
C2_Witness ==
    /\ op.name = "set"
    /\ op.kept = WEATHER_CACHE_MAX_ENTRIES
    /\ Len(Persisted) = WEATHER_CACHE_MAX_ENTRIES

\* C3: a set of a key that is not among 5 unexpired entries leaves exactly 5
\* entries, all of them among the six, and the one discarded has a fetchedAt
\* no later than that of any of the six.
C3_EvictsOldest ==
    [][(op'.name = "set" /\ op'.kept = WEATHER_CACHE_MAX_ENTRIES) =>
          LET six == Range(KeptBySet(localStorage, op'.key, now'))
                        \cup {WrittenEntry(op')}
              after == Range(PersistedOf(localStorage'))
              gone == six \ after
          IN  /\ Len(PersistedOf(localStorage')) = WEATHER_CACHE_MAX_ENTRIES
              /\ after \subseteq six
              /\ Cardinality(gone) = 1
              /\ \A d \in gone : \A e \in six :
                    ~StrLess(e.fetchedAt, d.fetchedAt)]_vars

\* a set into a full list of other keys kept the new entry and discarded an
\* older one
C3_Witness ==
    /\ op.name = "set"
    /\ op.kept = WEATHER_CACHE_MAX_ENTRIES
    /\ op.older
    /\ PersistedEntry(localStorage, op.key) = WrittenEntry(op)
    /\ Len(Persisted) = WEATHER_CACHE_MAX_ENTRIES

\* C4 as stated: a get of the key that was just set, with the clock still at
\* the value the set read, returns the snapshot stored.
C4_RoundTrip ==
    [][(op.name = "set" /\ op'.name = "get" /\ op'.key = op.key
            /\ now' = op.time)
          => ret' = op.weather]_vars

\* C4 amended: the same, provided the set loaded fewer than 5 unexpired
\* entries under other keys or one of them is older than the snapshot.
C4_RoundTripUnlessTrimmed ==
    [][(op.name = "set" /\ op'.name = "get" /\ op'.key = op.key
            /\ now' = op.time
            /\ (op.kept < WEATHER_CACHE_MAX_ENTRIES \/ op.older))
          => ret' = op.weather]_vars

\* a get returned the snapshot that a set into a full list has just stored
C4_Witness ==
    /\ op.name = "get"
    /\ op.found = "valid"
    /\ ret # Null
    /\ Len(Persisted) = WEATHER_CACHE_MAX_ENTRIES
    /\ Persisted[Len(Persisted)].key = op.key
    /\ now = op.time

\* C5 as stated: a get of a key whose persisted entry has expired returns
\* null and leaves no entry under that key in the persisted list.
C5_ExpiredEntryRemoved ==
    (op.name = "get" /\ op.found = "expired") =>
        /\ ret = Null
        /\ PersistedEntry(localStorage, op.key) = Null

\* C7: persisted keys are unique; the entry a set writes expires
\* WEATHER_CACHE_TTL_MS after the clock value the set read and holds the
\* snapshot of that set; every other persisted entry is one that was
\* persisted before the step, unchanged.
UniqueKeys(entries) ==
    \A i, j \in 1..Len(entries) : entries[i].key = entries[j].key => i = j

C7_OneEntryPerKey ==
    [][LET after == PersistedOf(localStorage')
       IN  /\ UniqueKeys(after)
           /\ \A i \in 1..Len(after) :
                 IF op'.name = "set" /\ after[i].key = op'.key
                 THEN /\ after[i].expiresAt = op'.time + WEATHER_CACHE_TTL_MS
                      /\ after[i].weather = op'.weather
                 ELSE after[i] \in Range(Persisted)]_vars

\* a set replaced the unexpired entry that was persisted under its key
C7_Witness ==
    /\ op.name = "set"
    /\ op.found = "valid"
    /\ PersistedEntry(localStorage, op.key) = WrittenEntry(op)
    /\ Len(Persisted) > 1

\* ------------------------------------------------------------------------
\* Properties of the request pipeline
\* ------------------------------------------------------------------------
\* C6: a snapshot returned from the cache was fetched at most
\* WEATHER_CACHE_TTL_MS before the cache lookup that supplied it: its
\* fetchedAt is not earlier than the time of the lookup minus the TTL.
C6_ServedWithinTtl ==
    (last.outcome = "resolved" /\ last.hit # "none") =>
        ~StrLess(last.result.fetchedAt,
                 toISOString(Max(0, last.hitTime - WEATHER_CACHE_TTL_MS)))

\* the keys as the text describes them: the query trimmed and lowercased,
\* the coordinates rounded to 4 decimals
TextQueryKey(text) == <<"query:">> \o toLowerCase(trim(text))

Rounded4(v) == <<IF v < 0 THEN "-" ELSE "", (Abs(v) + 5) \div 10>>

TextCoordsKey(lat, lon) == <<"coords:", Rounded4(lat), ",", Rounded4(lon)>>

TextKey(call) ==
    IF call.kind = "query" /\ call.hit # "coords" /\ call.issued = <<>>
    THEN TextQueryKey(call.query)
    ELSE TextCoordsKey(call.lat, call.lon)

ValidEntry(raw, key, t) ==
    LET e == PersistedEntry(raw, key)
    IN  e # Null /\ e.expiresAt > t

\* what a call served from the entry e returns
ServedSnapshot(call, e, relabelled) ==
    IF relabelled /\ call.hit = "coords"
    THEN [e.weather EXCEPT !.locationLabel = Coalesce(call.label, @)]
    ELSE e.weather

\* the steps in which fetchWeatherForQuery or fetchWeatherForCoords looks up
\* the cache: a call that goes on to send a request had no unexpired entry
\* under its key, and a call that settles without sending one resolves with
\* the snapshot of the unexpired entry under its key
CacheLookupSteps(relabelled) ==
    /\ \A r \in ReqIds :
          /\ (reqs[r].pc = "idle" /\ reqs'[r].pc = "geocoding") =>
                ~ValidEntry(localStorage, TextQueryKey(reqs'[r].query), now')
          /\ (reqs[r].pc \in {"idle", "geocoding"} /\ reqs'[r].pc = "forecast") =>
                ~ValidEntry(localStorage,
                            TextCoordsKey(reqs'[r].lat, reqs'[r].lon), now')
    /\ (last'.kind # "none" /\ last'.aq = "none" /\ last'.outcome = "resolved") =>
          LET e == PersistedEntry(localStorage, TextKey(last'))
          IN  /\ e # Null
              /\ e.expiresAt > now'
              /\ last'.hit # "none"
              /\ last'.result = ServedSnapshot(last', e, relabelled)
              /\ last'.issued = IF last'.kind = "query" /\ last'.hit = "coords"
                                THEN <<"geocoding">> ELSE <<>>

\* C8 as stated: a call with an unexpired entry under its key (the query
\* trimmed and lowercased, the coordinates rounded to 4 decimals) sends no
\* request and returns the snapshot of that entry.
C8_ReturnsCachedSnapshot == [][CacheLookupSteps(FALSE)]_vars

\* C8 amended: the same, the snapshot returned by fetchWeatherForCoords
\* carrying the label passed to the call in place of the cached one.
C8_ReturnsCachedSnapshotRelabelled == [][CacheLookupSteps(TRUE)]_vars

\* a direct coordinate call was served from the entry of nearby coordinates
\* and returned it under the label passed
C8_Witness ==
    /\ last.kind = "coords"
    /\ last.hit = "coords"
    /\ last.issued = <<>>
    /\ last.result.coords.lat # last.lat
    /\ last.result.locationLabel = last.label
    /\ LET e == PersistedEntry(localStorage, TextCoordsKey(last.lat, last.lon))
       IN  e # Null /\ e.weather.locationLabel # last.label

\* C9: a call whose air-quality request failed resolves, with the snapshot
\* built from the forecast payload, every hourly point without air-quality
\* sample and summary.
C9_AirQualityFailureIsolated ==
    last.aq \in {"status", "json"} =>
        /\ last.outcome = "resolved"
        /\ \E response \in ForecastResponses :
              /\ response.kind = "data"
              /\ last.result =
                    [buildWeather(last.lat, last.lon, last.label, response.data, 0)
                        EXCEPT !.fetchedAt = last.result.fetchedAt]
        /\ \A i \in 1..Len(last.result.hourly) :
              /\ last.result.hourly[i].airQuality = Null
              /\ last.result.hourly[i].airQualitySummary = Null

\* a direct coordinate call resolved although its air-quality response had
\* a failure status
C9_Witness ==
    /\ last.kind = "coords"
    /\ last.aq = "status"
    /\ last.outcome = "resolved"
    /\ last.issued = <<"forecast", "airQuality">>
    /\ Len(last.result.hourly) = 2

\* the air-quality map of the response drawn in the merge specification
MergeMap ==
    IF fx.airQuality.kind = "data" THEN fetchAirQuality(fx.airQuality.data)
    ELSE <<>>

\* C10: after the merge the hourly points are those built from the forecast
\* payload, in number, order and forecast fields; a point has a sample and
\* a summary exactly if the map has an entry under its timestamp, and they
\* are the values of that entry.
C10_MergedByTimestamp ==
    (fx # Null /\ fx.stage = "merged") =>
        LET before == buildHourly(fx.forecast)
            after == fx.weather.hourly
        IN  /\ Len(after) = Len(before)
            /\ \A i \in 1..Len(before) :
                  /\ [after[i] EXCEPT !.airQuality = Null,
                                      !.airQualitySummary = Null] = before[i]
                  /\ IF before[i].time \in DOMAIN MergeMap
                     THEN LET entry == MergeMap[before[i].time]
                          IN  /\ after[i].airQuality =
                                    [pm10 |-> entry.pm10, pm2_5 |-> entry.pm2_5,
                                     dust |-> entry.dust, uvIndex |-> entry.uvIndex,
                                     usAqi |-> entry.usAqi, category |-> entry.category]
                              /\ after[i].airQualitySummary = entry.summary
                     ELSE /\ after[i].airQuality = Null
                          /\ after[i].airQualitySummary = Null

\* a merge attached a sample to one point and none to another whose hour
\* the map holds written with seconds
C10_Witness ==
    /\ fx # Null
    /\ fx.stage = "merged"
    /\ Hour0Seconds \in DOMAIN MergeMap
    /\ \E i, j \in 1..Len(fx.weather.hourly) :
          /\ fx.weather.hourly[i].airQuality # Null
          /\ fx.weather.hourly[j].time = Hour0
          /\ fx.weather.hourly[j].airQuality = Null

\* C11: a call whose geocoding response has a failure status or no results,
\* or whose forecast response has a failure status, rejects with that error
\* and without a snapshot; no call goes on after such a response.
C11_FailuresReject ==
    /\ \A r \in DOMAIN reqs :
          reqs[r].pc # "idle" =>
              reqs[r].geo \in {"none", "data"} /\ reqs[r].fc \in {"none", "data"}
    /\ last.geo \in {"status", "empty"} =>
          /\ last.outcome = "rejected"
          /\ last.result = Null
          /\ last.error = IF last.geo = "status" THEN "status" ELSE "No results found"
    /\ last.fc = "status" =>
          /\ last.outcome = "rejected"
          /\ last.result = Null
          /\ last.error = "status"

\* a query call rejected because its forecast response had a failure status
C11_Witness ==
    /\ last.kind = "query"
    /\ last.geo = "data"
    /\ last.fc = "status"
    /\ last.outcome = "rejected"
    /\ last.error = "status"

\* the order of the upstream requests of a query call
RequestOrder == <<"geocoding", "forecast", "airQuality">>

IsPrefix(short, long) ==
    Len(short) <= Len(long) /\ SubSeq(long, 1, Len(short)) = short

\* the requests a query call has sent are an initial part of RequestOrder,
\* and each but the first was sent after a successful response to the one
\* before it
SentInOrder(call) ==
    /\ IsPrefix(call.issued, RequestOrder)
    /\ Len(call.issued) >= 2 => call.geo = "data"
    /\ Len(call.issued) >= 3 => call.fc = "data"

\* the entries persisted after the step that were not persisted before it
NewEntries ==
    Range(PersistedOf(localStorage')) \ Range(PersistedOf(localStorage))

\* C12: a query call sends geocoding, forecast and air-quality request in
\* this order, each once and each after the previous one succeeded; an entry
\* is written only by the step that settles a call, it holds the snapshot the
\* call resolves with, and for a call that missed the cache that step is the
\* one after the air-quality response, with the samples merged.
C12_SequentialChain ==
    [][/\ \A r \in DOMAIN reqs :
             reqs'[r].kind = "query" =>
                /\ SentInOrder(reqs'[r])
                /\ reqs'[r].pc = reqs'[r].issued[Len(reqs'[r].issued)]
       /\ last'.kind = "query" => SentInOrder(last')
       /\ NewEntries # {} =>
             /\ last'.outcome = "resolved"
             /\ \A e \in NewEntries : e.weather = last'.result
             /\ last'.hit = "none" =>
                   /\ last'.aq # "none"
                   /\ last'.kind = "query" => last'.issued = RequestOrder
                   /\ last'.aq = "data" =>
                         \E i \in 1..Len(last'.result.hourly) :
                            last'.result.hourly[i].airQuality # Null]_vars

\* a query call that missed the cache settled after all three requests and
\* its snapshot is persisted under both keys
C12_Witness ==
    /\ last.kind = "query"
    /\ last.hit = "none"
    /\ last.outcome = "resolved"
    /\ last.issued = RequestOrder
    /\ last.aq = "data"
    /\ Len(Persisted) = 2
    /\ \A i \in 1..2 : Persisted[i].weather = last.result

\* ------------------------------------------------------------------------
\* Properties of concurrent calls
\* ------------------------------------------------------------------------
\* the step in which the call in slot r stores its snapshot and settles
Stores(r) == reqs[r].pc = "airQuality" /\ reqs'[r].pc = "idle"

\* after the step the persisted list holds exactly one entry under the key,
\* with the snapshot the call resolved with
OneEntryOfWriter(key) ==
    LET after == PersistedOf(localStorage')
    IN  /\ last'.outcome = "resolved"
        /\ Cardinality({i \in 1..Len(after) : after[i].key = key}) = 1
        /\ PersistedEntry(localStorage', key).weather = last'.result

\* the write has room: fewer than 5 unexpired entries under other keys, or
\* one of them older than the snapshot
HasRoom(key, weather) ==
    LET kept == KeptBySet(localStorage, key, now')
    IN  \/ Len(kept) < WEATHER_CACHE_MAX_ENTRIES
        \/ \E i \in 1..Len(kept) : StrLess(kept[i].fetchedAt, weather.fetchedAt)

\* C13 as stated: every call that stores its snapshot resolves and leaves
\* exactly one entry under its key, holding its snapshot, whether or not
\* another call for the same key has stored one meanwhile.
C13_LastWriteWins ==
    [][\A r \in DOMAIN reqs :
          Stores(r) => OneEntryOfWriter(TextCoordsKey(reqs[r].lat, reqs[r].lon))]_vars

\* C13 amended: the same for a write that has room.
C13_LastWriteWinsWithRoom ==
    [][\A r \in DOMAIN reqs :
          (Stores(r) /\ HasRoom(TextCoordsKey(reqs[r].lat, reqs[r].lon), last'.result))
            => OneEntryOfWriter(TextCoordsKey(reqs[r].lat, reqs[r].lon))]_vars

\* a call that had missed the cache stored its snapshot over the unexpired
\* entry that a concurrent call for the same key had stored meanwhile
C13_Witness ==
    /\ last.hit = "none"
    /\ last.outcome = "resolved"
    /\ last.found = "valid"
    /\ PersistedEntry(localStorage, TextCoordsKey(last.lat, last.lon)) # Null
    /\ PersistedEntry(localStorage, TextCoordsKey(last.lat, last.lon)).weather
          = last.result

\* ------------------------------------------------------------------------
\* Properties of a failing storage backend
\* ------------------------------------------------------------------------
\* C14: on a storage backend that is unavailable or fails, getCachedWeather
\* returns null, setCachedWeather completes without raising, and a direct
\* coordinate call whose forecast request succeeds is not served from the
\* cache and resolves with the snapshot it fetched; no call is rejected for
\* a reason other than its forecast request.
C14_StorageFailureTolerated ==
    /\ (op.name = "get" /\ localStorage \in StorageBackends) => ret = Null
    /\ op.name = "set" => ret = Null
    /\ last.outcome = "rejected" => last.fc \in {"status", "json"}
    /\ last.fc = "data" =>
          /\ last.outcome = "resolved"
          /\ last.hit = "none"
          /\ last.issued = <<"forecast", "airQuality">>
          /\ last.result # Null
          /\ last.result.fetchedAt = toISOString(now)

\* ------------------------------------------------------------------------
\* Properties of the forecast parse
\* ------------------------------------------------------------------------
\* the modelled timestamp and date keys in ascending string order
KeyOrder == <<Day0, Hour0, Hour0Seconds, Hour1, Day1>>

\* keys[i] < keys[i + 1] as strings, for every i
StrictlyAscending(keys) ==
    \A i \in 1..(Len(keys) - 1) :
        \E m \in 1..Len(KeyOrder) : \E n \in (m + 1)..Len(KeyOrder) :
            keys[i] = KeyOrder[m] /\ keys[i + 1] = KeyOrder[n]

\* the time array of a section of the payload, empty if it is not an array
UpstreamKeys(section) == IF IsArray(section.time) THEN section.time.arr ELSE <<>>

HourlyKeys == [i \in 1..Len(fx.weather.hourly) |-> fx.weather.hourly[i].time]

DailyKeys == [i \in 1..Len(fx.weather.daily) |-> fx.weather.daily[i].date]

\* C15 as stated: in every snapshot the hourly keys and the daily keys are
\* strictly ascending (hence without duplicates).
C15_StrictlyAscending ==
    fx.stage \in {"built", "merged"} =>
        /\ StrictlyAscending(HourlyKeys)
        /\ StrictlyAscending(DailyKeys)

\* C15 amended: the hourly keys and the daily keys of a snapshot are the
\* time arrays of the forecast payload, in the payload's order; they are
\* strictly ascending, without duplicates, whenever those arrays are.
C15_UpstreamOrderKept ==
    fx.stage \in {"built", "merged"} =>
        /\ HourlyKeys = UpstreamKeys(fx.forecast.hourly)
        /\ DailyKeys = UpstreamKeys(fx.forecast.daily)
        /\ StrictlyAscending(UpstreamKeys(fx.forecast.hourly))
              => StrictlyAscending(HourlyKeys)
        /\ StrictlyAscending(UpstreamKeys(fx.forecast.daily))
              => StrictlyAscending(DailyKeys)

\* a merged snapshot of two ascending hours and two ascending days
C15_Witness ==
    /\ fx.stage = "merged"
    /\ HourlyKeys = <<Hour0, Hour1>>
    /\ DailyKeys = <<Day0, Day1>>

\* C16: a built snapshot has one hourly point per entry of the payload's
\* hourly time array and one daily point per entry of its daily time array,
\* in the same order; a field holds the value of its source array at the
\* point's index, and null where the array is missing, ends before that
\* index or holds null there.
C16_OnePointPerTime ==
    fx.stage \in {"built", "merged"} =>
        LET h == fx.forecast.hourly
            d == fx.forecast.daily
            hourly == fx.weather.hourly
            daily == fx.weather.daily
            At(arr, i) == IF IsArray(arr) /\ i <= Len(arr.arr) THEN arr.arr[i] ELSE Null
        IN  /\ Len(hourly) = Len(UpstreamKeys(h))
            /\ Len(daily) = Len(UpstreamKeys(d))
            /\ \A i \in 1..Len(hourly) :
                  /\ hourly[i].time = UpstreamKeys(h)[i]
                  /\ hourly[i].temperature = At(h.temperature_2m, i)
                  /\ hourly[i].weatherCode = At(h.weathercode, i)
                  /\ hourly[i].apparentTemperature = Null
                  /\ hourly[i].precipitation = Null
                  /\ hourly[i].humidity = Null
                  /\ hourly[i].windSpeed = Null
                  /\ hourly[i].windDirection = Null
                  /\ hourly[i].windGusts = Null
                  /\ hourly[i].cloudCover = Null
                  /\ hourly[i].visibility = Null
                  /\ hourly[i].uvIndex = Null
            /\ \A i \in 1..Len(daily) :
                  /\ daily[i].date = UpstreamKeys(d)[i]
                  /\ daily[i].tempMax = At(d.temperature_2m_max, i)
                  /\ daily[i].tempMin = At(d.temperature_2m_min, i)
                  /\ daily[i].weatherCode = Null
                  /\ daily[i].sunrise = Null
                  /\ daily[i].sunset = Null
                  /\ daily[i].uvIndexMax = Null

\* a snapshot built from two hours and two days whose temperature arrays
\* end after the first: the second points hold null there
C16_Witness ==
    /\ fx.stage = "built"
    /\ Len(fx.weather.hourly) = 2
    /\ fx.forecast.hourly.temperature_2m = Arr(<<Num(20)>>)
    /\ fx.weather.hourly[1].temperature = Num(20)
    /\ fx.weather.hourly[2].temperature = Null
    /\ fx.weather.hourly[2].weatherCode = Null
    /\ fx.weather.hourly[1].windSpeed = Null
    /\ Len(fx.weather.daily) = 2
    /\ fx.weather.daily[1].tempMax = Num(25)
    /\ fx.weather.daily[2].tempMax = Null

\* ------------------------------------------------------------------------
\* Properties of query parsing and geocoding
\* ------------------------------------------------------------------------
\* C17: parseLocationQuery answers for every text, and on the trimmed text
\* t: five digits and nothing else give zip with t; otherwise a non-empty
\* comma-free text, a comma, any white space and two letters that end t
\* give city_state with the text trimmed and the letters in upper case;
\* anything else gives generic with t, the empty t included.
C17_ClassifiesExactly ==
    (fx.fn = "parseLocationQuery" /\ fx.stage = "done") =>
        LET t == trim(fx.query)
            n == Len(t)
            fiveDigits == n = 5 /\ \A i \in 1..n : IsDigit(t[i])
            splits == {c \in 2..(n - 2) :
                          /\ t[c] = ","
                          /\ \A i \in 1..(c - 1) : t[i] # ","
                          /\ \A i \in (c + 1)..(n - 2) : t[i] = " "
                          /\ IsLetter(t[n - 1]) /\ IsLetter(t[n])}
        IN  IF fiveDigits THEN fx.output = [kind |-> "zip", zip |-> t]
            ELSE IF splits # {}
            THEN \E c \in splits :
                    fx.output = [kind |-> "city_state",
                                 city |-> trim(SubSeq(t, 1, c - 1)),
                                 stateCode |-> toUpperCase(SubSeq(t, n - 1, n))]
            ELSE fx.output = [kind |-> "generic", raw |-> t]

\* " a ,aB" is classified as the city "a" in the state "AB"
C17_Witness ==
    /\ fx.fn = "parseLocationQuery" /\ fx.stage = "done"
    /\ fx.query = <<" ", "a", " ", ",", "a", "B">>
    /\ fx.output = [kind |-> "city_state", city |-> <<"a">>,
                    stateCode |-> <<"A", "B">>]

\* C18: for a "City, ST" query answered with results, geocodeLocation
\* returns the coordinates and label of the first result whose admin1 is
\* the full name of the state ST (letter case aside), and those of the first
\* result when no result is such or ST is not in the table.
C18_PrefersMatchingState ==
    (/\ fx.fn = "geocodeLocation" /\ fx.stage = "done"
     /\ parseLocationQuery(fx.query).kind = "city_state"
     /\ fx.response.kind = "data"
     /\ IsArray(fx.response.data.results)
     /\ Len(fx.response.data.results.arr) > 0) =>
        LET results == fx.response.data.results.arr
            code == toUpperCase(SubSeq(trim(fx.query), Len(trim(fx.query)) - 1,
                                       Len(trim(fx.query))))
            names == {e.name : e \in {x \in US_STATE_NAMES : x.code = code}}
            matching == {i \in 1..Len(results) :
                            /\ results[i].admin1 # Undefined
                            /\ \E name \in names :
                                  toLowerCase(results[i].admin1.str) = toLowerCase(name)}
            expected == IF matching = {} THEN results[1]
                        ELSE results[CHOOSE i \in matching : \A j \in matching : i <= j]
        IN  /\ fx.output.ok
            /\ fx.output.lat = expected.latitude
            /\ fx.output.lon = expected.longitude
            /\ fx.output.label =
                  Str(expected.name.str \o <<", ">>
                      \o (IF expected.admin1 = Undefined THEN <<>>
                          ELSE expected.admin1.str \o <<", ">>)
                      \o expected.country_code.str)

\* "a , de" answered with a Georgia result and two Delaware results: the
\* second result is returned
C18_Witness ==
    /\ fx.fn = "geocodeLocation" /\ fx.stage = "done"
    /\ fx.query = <<"a", " ", ",", " ", "d", "e">>
    /\ fx.response.kind = "data"
    /\ IsArray(fx.response.data.results)
    /\ Len(fx.response.data.results.arr) = 3
    /\ fx.response.data.results.arr[1].admin1 = Str(StateName(<<"G", "A">>))
    /\ fx.response.data.results.arr[2].admin1 = Str(toLowerCase(StateName(<<"D", "E">>)))
    /\ fx.response.data.results.arr[3].admin1 = Str(StateName(<<"D", "E">>))
    /\ fx.output.ok
    /\ fx.output.lat = 2

\* ------------------------------------------------------------------------
\* Properties of reverse geocoding
\* ------------------------------------------------------------------------
\* C19: reverseGeocodeCoords never raises, and it answers null when the
\* request fails (failure status, body that does not parse), when the body
\* is null or has no address, and when the country code of the address is
\* not a string.
C19_NeverRejects ==
    (fx.fn = "reverseGeocodeCoords" /\ fx.stage # "input") =>
        /\ fx.output # Thrown
        /\ IF fx.response.kind # "data" THEN fx.output = Null
           ELSE IF fx.response.data = Null THEN fx.output = Null
           ELSE IF fx.response.data.address = Undefined THEN fx.output = Null
           ELSE fx.response.data.address.country_code = Num(1) => fx.output = Null

\* the function of locationApi.js answered null to a failure status
C19_Witness ==
    /\ fx.fn = "reverseGeocodeCoords"
    /\ fx.stage = "locationApi"
    /\ fx.response.kind = "status"
    /\ fx.output = Null

\* C20: with an address, the label of reverseGeocodeCoords is the first
\* present of city, town, village, hamlet and suburb, then the state if
\* present, then the upper-cased country code if present, joined by ", ";
\* without a city-like field it is "Near " and the postal code if there is
\* one, and null otherwise.
C20_LabelOrPostalCode ==
    (/\ fx.fn = "reverseGeocodeCoords" /\ fx.stage # "input"
     /\ fx.response.kind = "data"
     /\ fx.response.data # Null
     /\ fx.response.data.address # Undefined
     /\ fx.response.data.address.country_code # Num(1)) =>
        LET a == fx.response.data.address
            cityLike == IF a.city # Undefined THEN a.city
                        ELSE IF a.town # Undefined THEN a.town
                        ELSE IF a.village # Undefined THEN a.village
                        ELSE IF a.hamlet # Undefined THEN a.hamlet
                        ELSE a.suburb
            rest == (IF a.state # Undefined THEN <<", ">> \o a.state.str ELSE <<>>)
                    \o (IF a.country_code # Undefined
                        THEN <<", ">> \o toUpperCase(a.country_code.str) ELSE <<>>)
        IN  IF cityLike # Undefined THEN fx.output = Str(cityLike.str \o rest)
            ELSE IF a.postcode # Undefined
                 THEN fx.output = Str(<<"Near ">> \o a.postcode.str)
                 ELSE fx.output = Null

\* ------------------------------------------------------------------------
\* Properties of the classifiers and formatters
\* ------------------------------------------------------------------------
\* C21 as stated: a null temperature gives unknown; otherwise a
\* precipitation (0 when missing) below 0.1 gives dry; otherwise a
\* temperature at or below 0 gives snow_ice_risk; otherwise a wintry weather
\* code gives snow_ice_risk; otherwise wet.
C21_OrderedRules ==
    (fx.fn = "classifyRoadCondition" /\ fx.stage = "done") =>
        LET t == fx.args[1]
            p == IF fx.args[2] \in {Null, Undefined} THEN Num(0) ELSE fx.args[2]
            c == fx.args[3]
        IN  fx.output.category =
              IF t \in {Null, Undefined} THEN "unknown"
              ELSE IF p # NaN /\ p.num < 10 THEN "dry"
              ELSE IF t # NaN /\ t.num <= 0 THEN "snow_ice_risk"
              ELSE IF c \notin {Null, Undefined} /\ c.num \in WintryCodes
                   THEN "snow_ice_risk"
              ELSE "wet"

\* C21 amended: as above, but the last rule gives wet only for a
\* precipitation of at least 0.1, and dry for a precipitation that is NaN.
C21_OrderedRulesNaNDry ==
    (fx.fn = "classifyRoadCondition" /\ fx.stage = "done") =>
        LET t == fx.args[1]
            p == IF fx.args[2] \in {Null, Undefined} THEN Num(0) ELSE fx.args[2]
            c == fx.args[3]
        IN  fx.output.category =
              IF t \in {Null, Undefined} THEN "unknown"
              ELSE IF p # NaN /\ p.num < 10 THEN "dry"
              ELSE IF t # NaN /\ t.num <= 0 THEN "snow_ice_risk"
              ELSE IF c \notin {Null, Undefined} /\ c.num \in WintryCodes
                   THEN "snow_ice_risk"
              ELSE IF p = NaN THEN "dry"
              ELSE "wet"

\* 0.1 degree, 0.1 mm and the code 71: the weather code decides
C21_Witness ==
    /\ fx.fn = "classifyRoadCondition" /\ fx.stage = "done"
    /\ fx.args = <<Num(1), Num(10), Num(71)>>
    /\ fx.output.category = "snow_ice_risk"

\* C22: null, undefined and NaN give the category unknown; any other value
\* is rounded to the nearest integer (a half upwards) and falls in the
\* bucket of that integer: up to 50 good, up to 100 moderate, up to 150
\* unhealthy with the summary "Unhealthy for sensitive groups", up to 200
\* unhealthy, up to 300 very_unhealthy, above hazardous; and every summary
\* but the unknown one holds the rounded value.
C22_AqiBuckets ==
    (fx.fn = "classifyUsAqi" /\ fx.stage = "done") =>
        LET v == fx.args[1]
            out == fx.output
        IN  IF v \in {Null, Undefined, NaN}
            THEN /\ out.category = "unknown"
                 /\ out.summary = <<"Air quality unknown">>
            ELSE \E aqi \in (0 - 2)..(AqiMaxTenths \div 10 + 1) :
                    /\ 10 * aqi - 5 <= v.num /\ v.num < 10 * aqi + 5
                    /\ out.summary[2] = aqi
                    /\ out.category =
                          IF aqi <= 50 THEN "good"
                          ELSE IF aqi <= 100 THEN "moderate"
                          ELSE IF aqi <= 200 THEN "unhealthy"
                          ELSE IF aqi <= 300 THEN "very_unhealthy"
                          ELSE "hazardous"
                    /\ (100 < aqi /\ aqi <= 150)
                          <=> out.summary[1] = "Unhealthy for sensitive groups (US AQI "

\* 150.4 rounds to 150 and is still "for sensitive groups"; 150.5 is not
C22_Witness ==
    /\ fx.fn = "classifyUsAqi" /\ fx.stage = "done"
    /\ fx.args[1] = Num(1504)
    /\ fx.output.category = "unhealthy"
    /\ fx.output.summary = <<"Unhealthy for sensitive groups (US AQI ", 150, ")">>

\* C23: for a value that is null, undefined or NaN, in either unit system,
\* each of the four formatters returns its placeholder text (and so neither
\* raises nor prints a number).
C23_PlaceholderForMissing ==
    (/\ fx.fn \in {"formatTemperature", "formatPrecipitation",
                   "formatWindSpeed", "formatVisibility"}
     /\ fx.stage = "done"
     /\ fx.args[1] \in {Null, Undefined, NaN}) =>
        fx.output \in {[text |-> "EN DASH"], [text |-> "EM DASH"]}

\* C26: the category returned satisfies its own description: dry only with
\* a temperature above freezing and a precipitation below 0.1 mm, wet only
\* with a precipitation of at least 0.1 mm and a temperature above freezing,
\* snow_ice_risk only with a temperature at or below freezing or a wintry
\* condition code.
C26_CategoryMatchesDescription ==
    (fx.fn = "classifyRoadCondition" /\ fx.stage = "done") =>
        LET t == fx.args[1]
            p == IF fx.args[2] \in {Null, Undefined} THEN Num(0) ELSE fx.args[2]
            c == fx.args[3]
            aboveFreezing == t \notin {Null, Undefined, NaN} /\ t.num > 0
            wintry == c \notin {Null, Undefined} /\ c.num \in WintryCodes
            detail == fx.output.info.detail
        IN  /\ "above freezing" \in detail => aboveFreezing
            /\ "precipitation minimal" \in detail => p # NaN /\ p.num < 10
            /\ "measurable precipitation" \in detail => p # NaN /\ p.num >= 10
            /\ "below freezing or wintry precipitation" \in detail =>
                  \/ t \notin {Null, Undefined, NaN} /\ t.num <= 0
                  \/ wintry
            /\ fx.output.category = "dry" <=>
                  detail = {"precipitation minimal", "above freezing"}
            /\ fx.output.category = "wet" <=>
                  detail = {"measurable precipitation", "above freezing"}
            /\ fx.output.category = "snow_ice_risk" <=>
                  detail = {"below freezing or wintry precipitation"}

\* C24: a call that ends with a failed geocoding or forecast request leaves
\* the persisted list exactly as it was before the call. One call runs at a
\* time here and every step of a call that has not yet settled can be
\* followed by a failure, so this is: every step but the one that resolves a
\* call, the cache lookups of the call included, leaves the list as it is.
C24_FailureLeavesCacheAsItWas ==
    [][last'.outcome # "resolved" => localStorage' = localStorage]_vars

\* C24 amended: such a step adds no entry and changes none; it leaves the
\* list as it is unless the lookup finds the entry under its key expired
\* at its second reading of the clock, and then rewrites the list without
\* that entry and without the entries expired at the first reading.
C24_FailureAddsNoEntry ==
    [][last'.outcome # "resolved" =>
          LET before == PersistedOf(localStorage)
              after == PersistedOf(localStorage')
          IN  \/ localStorage' = localStorage
              \/ /\ IsEntryList(localStorage')
                 /\ \E key \in {before[i].key : i \in 1..Len(before)} :
                       /\ Found(localStorage, key, now) = "valid"
                       /\ Found(localStorage, key, now') = "expired"
                       /\ after = SelectSeq(before,
                               LAMBDA e : e.expiresAt > now /\ e.key # key)]_vars

\* a forecast request has failed with an entry persisted
C24_Witness ==
    /\ last.outcome = "rejected"
    /\ last.fc \in {"network", "status", "json"}
    /\ Len(Persisted) > 0

\* ------------------------------------------------------------------------
\* Properties of repeated searches
\* ------------------------------------------------------------------------
\* the i-th query of the history is searched again within the TTL of the
\* store that followed its fetch
SearchedAgain(i) ==
    /\ now' = now
    /\ i \in 1..Len(fx.fetched)
    /\ fx'.call.key = fx.fetched[i].key
    /\ now < fx.fetched[i].time + WEATHER_CACHE_TTL_MS

\* C25: within the TTL, a repeated search of any of the five distinct
\* queries searched most recently is served from the cache: it resolves
\* with the snapshot and sends no request.
C25_FiveRecentQueriesServed ==
    [][\A i \in 1..WEATHER_CACHE_MAX_ENTRIES :
          SearchedAgain(i) =>
             /\ fx'.call.outcome = "resolved"
             /\ fx'.call.issued = <<>>]_vars

\* C25 amended: this holds for the two queries whose snapshots were fetched
\* last, when the snapshot was fetched at a later clock value than that of
\* the third.
C25_TwoLatestFetchedServed ==
    [][\A i \in 1..2 :
          (/\ SearchedAgain(i)
           /\ Len(fx.fetched) >= 3 => fx.fetched[i].time > fx.fetched[3].time) =>
             /\ fx'.call.outcome = "resolved"
             /\ fx'.call.issued = <<>>
             /\ fx'.call.result.fetchedAt = toISOString(fx.fetched[i].time)]_vars

\* three queries were fetched at three clock values and the second of them
\* has been searched again and served from the cache
C25_Witness ==
    /\ Len(fx.fetched) = 3
    /\ fx.fetched[2].time > fx.fetched[3].time
    /\ fx.call.key = fx.fetched[2].key
    /\ fx.call.outcome = "resolved"
    /\ fx.call.issued = <<>>
    /\ Len(Persisted) = WEATHER_CACHE_MAX_ENTRIES

\* ------------------------------------------------------------------------
\* Properties of snapshots without air-quality data
\* ------------------------------------------------------------------------
\* no hourly point of the snapshot carries air-quality data
NoAirQuality(weather) ==
    \A j \in 1..Len(weather.hourly) : weather.hourly[j].airQuality = Null

\* the step starts a call for the coordinates of the call that settled last
StartsSameKey(r) ==
    /\ reqs[r].pc = "idle"
    /\ \/ reqs'[r].pc = "forecast" /\ reqs'[r].lat = last.lat /\ reqs'[r].lon = last.lon
       \/ reqs' = reqs /\ last'.hit = "coords"
                      /\ last'.lat = last.lat /\ last'.lon = last.lon
    /\ makeCoordsCacheKey(last.lat, last.lon) = makeCoordsCacheKey(PlaceA.lat, PlaceA.lon)

\* C27: after a call has stored a snapshot built while the air-quality
\* request failed, a call for the same key within the TTL is served from
\* the cache: it resolves at once with a snapshot without air-quality data
\* and sends no request, so no air-quality request either.
C27_FailedAirQualityNotRetried ==
    [][\A r \in RaceIds :
          (/\ last.outcome = "resolved" /\ last.hit = "none" /\ last.aq = "status"
           /\ StartsSameKey(r)) =>
             /\ reqs' = reqs
             /\ last'.outcome = "resolved"
             /\ last'.issued = <<>>
             /\ NoAirQuality(last'.result)]_vars

\* C27 amended: a call whose air-quality request failed resolves with a
\* snapshot without air-quality data and stores it like any other (the
\* entry it writes holds that snapshot and is persisted unless the trim
\* removes it); and a call for a key under which
\* an unexpired entry with such a snapshot is persisted resolves at once
\* with that snapshot under the label passed and sends no request.
C27_FailedAirQualityCachedWhilePersisted ==
    [][\A r \in RaceIds :
          LET key == makeCoordsCacheKey(PlaceA.lat, PlaceA.lon)
              entry == PersistedEntry(localStorage, key)
          IN  /\ (Stores(r) /\ last'.aq = "status") =>
                     /\ last'.outcome = "resolved"
                     /\ NoAirQuality(last'.result)
                     /\ \A e \in NewEntries : e.weather = last'.result
                     /\ HasRoom(key, last'.result) =>
                           /\ PersistedEntry(localStorage', key) # Null
                           /\ PersistedEntry(localStorage', key).weather = last'.result
              /\ (/\ reqs[r].pc = "idle"
                  /\ \/ reqs'[r].pc = "forecast"
                     \/ reqs' = reqs /\ last' # last /\ last'.hit = "coords"
                  /\ Found(localStorage, key, now) = "valid"
                  /\ NoAirQuality(entry.weather)) =>
                     /\ reqs' = reqs
                     /\ last'.outcome = "resolved"
                     /\ last'.issued = <<>>
                     /\ last'.result =
                           [entry.weather EXCEPT
                              !.locationLabel = Str(<<"Your location">>)]
                     /\ localStorage' = localStorage]_vars

\* a call has been served from the cache with a snapshot without
\* air-quality data while five entries are persisted
C27_Witness ==
    /\ last.outcome = "resolved"
    /\ last.hit = "coords"
    /\ NoAirQuality(last.result)
    /\ Len(last.result.hourly) > 0
    /\ Len(Persisted) = WEATHER_CACHE_MAX_ENTRIES

\* ------------------------------------------------------------------------
\* Properties of concurrent calls for different keys
\* ------------------------------------------------------------------------
\* C28: with calls for different keys in flight at once, no store loses an
\* entry: when the unexpired entries under other keys and the new one are
\* at most 5, the step that stores a snapshot leaves an entry holding it
\* under its key and keeps every unexpired entry under another key as it
\* was, the entry of the other call included.
C28_NoWriteLost ==
    [][\A r \in RaceIds :
          Stores(r) =>
             LET key == makeCoordsCacheKey(reqs[r].lat, reqs[r].lon)
                 kept == SelectSeq(PersistedOf(localStorage),
                                   LAMBDA e : e.key # key /\ e.expiresAt > now')
                 after == PersistedOf(localStorage')
             IN  Len(kept) < WEATHER_CACHE_MAX_ENTRIES =>
                    /\ last'.outcome = "resolved"
                    /\ PersistedEntry(localStorage', key) # Null
                    /\ PersistedEntry(localStorage', key).weather = last'.result
                    /\ Range(after) = Range(kept) \cup {PersistedEntry(localStorage', key)}
                    /\ UniqueKeys(after)]_vars

\* the call for the second place, made while the first was in flight, has
\* stored its snapshot and both keys have an entry
C28_Witness ==
    /\ last.outcome = "resolved"
    /\ last.lat = PlaceB.lat
    /\ last.hit = "none"
    /\ reqs[1].pc = "idle"
    /\ PersistedEntry(localStorage, makeCoordsCacheKey(PlaceA.lat, PlaceA.lon)) # Null
    /\ PersistedEntry(localStorage, makeCoordsCacheKey(PlaceB.lat, PlaceB.lon)) # Null
    /\ Len(Persisted) = WEATHER_CACHE_MAX_ENTRIES

\* ------------------------------------------------------------------------
\* Properties of the App state
\* ------------------------------------------------------------------------
\* C29: whenever no request is in flight and error is not null, weather is
\* null.
C29_ErrorMeansNoWeather ==
    (reqs[1].pc = "idle" /\ fx.error # Null) => fx.weather = Null

\* C30: when every network call and every geolocation callback eventually
\* resolves or rejects, every request started by handleSubmitLocation or
\* handleUseMyLocation eventually ends, with loading false and with a
\* weather snapshot or an error message in the state.
C30_RequestsEnd ==
    (reqs[1].pc # "idle") ~>
        (/\ reqs[1].pc = "idle"
         /\ ~fx.loading
         /\ fx.weather # Null \/ fx.error # Null)

\* a request started by handleUseMyLocation has ended with a snapshot
C30_Witness ==
    /\ last.handler = "handleUseMyLocation"
    /\ last.outcome = "resolved"
    /\ reqs[1].pc = "idle"
    /\ ~fx.loading
    /\ fx.weather # Null
    /\ fx.error = Null

====
